---- MODULE Spec2Model ----
(***************************************************************************)
(* codeview: symbol-precise edits (replace, delete, replace_body, batch)   *)
(* over a parsed source, validated by re-parsing, and the edit command     *)
(* that writes the result back.                                            *)
(*                                                                         *)
(* A source text is a sequence of bytes.  The grammar adapter is modelled  *)
(* by a parser for a Rust subset in which every token is one byte:         *)
(*   "#"  attribute_item          "/"  line_comment                        *)
(*   "f" NAME "{" ... "}"         function_item with a block body          *)
(*   "S" NAME "{" ... "}"         struct_item with a field_declaration_list*)
(*   "I" NAME "{" ... "}"         impl_item with a declaration_list        *)
(*   "T" NAME "{" ... "}"         trait_item with a declaration_list       *)
(*   "C" NAME "{" ... "}"         const_item whose value is a block        *)
(*   "s" "t"                      expression statements inside a block     *)
(*   "x" "y"                      field declarations inside a struct       *)
(*   " " "\t" "\n" "\r"           whitespace between tokens                *)
(* A text may also hold the two bytes "C2" "A0" of U+00A0, the no-break     *)
(* space: one character that str::trim takes for whitespace.               *)
(* and a TypeScript source by a parser for a TypeScript subset:             *)
(*   "K" NAME "{" ... "}"         class_declaration with a class_body      *)
(*   "m" NAME "{" ... "}"         method_definition with a statement_block *)
(*   "p"                          public_field_definition in a class body  *)
(*   "s" "t"                      expression statements inside a block     *)
(* Byte offsets are 0-based and ranges half-open, as in the code.          *)
(***************************************************************************)
EXTENDS Integers, Sequences, FiniteSets, TLC

VARIABLES source, call, res, pc, file, writes, out, args, edit_results

vars == <<source, call, res, pc, file, writes, out, args, edit_results>>

(***************************************************************************)
(* Bytes and slices                                                        *)
(***************************************************************************)
NL == "\n"
SP == " "
CR == "\r"

\* The UTF-8 encoding of U+00A0.
NBSP == <<"C2", "A0">>

Idents == {"a", "b", "c", "z", "A"}

Slice(s, from, to) == SubSeq(s, from + 1, to)

Tail0(s, from) == SubSeq(s, from + 1, Len(s))

\* let x = value in F(x)
With(value, F(_)) == F(value)

IsWhitespace(b) == b \in {" ", "\t", "\n", "\r"}

RECURSIVE CountNL(_, _)
CountNL(s, upto) ==
    IF upto = 0 THEN 0
    ELSE CountNL(s, upto - 1) + (IF s[upto] = NL THEN 1 ELSE 0)

(***************************************************************************)
(* parser::parse: the syntax tree as the pre-order sequence of its nodes.  *)
(* parent = 0 names the root (source_file).  err is root_node().has_error()*)
(***************************************************************************)
ItemKinds == {"function_item", "struct_item", "impl_item", "const_item", "trait_item"}

BodyKindOf(itemKind) ==
    CASE itemKind = "function_item" -> "block"
      [] itemKind = "struct_item" -> "field_declaration_list"
      [] itemKind = "impl_item" -> "declaration_list"
      [] itemKind = "trait_item" -> "declaration_list"
      [] itemKind = "const_item" -> "block"

NameKindOf(itemKind) ==
    IF itemKind \in {"function_item", "const_item"} THEN "identifier" ELSE "type_identifier"

Top(stack) == stack[Len(stack)]

Pop(stack) == SubSeq(stack, 1, Len(stack) - 1)

Ctx(st) == IF st.stack = <<>> THEN "source_file" ELSE st.nodes[Top(st.stack)].kind

CurParent(st) == IF st.stack = <<>> THEN 0 ELSE Top(st.stack)

NewNode(kind, start, end, parent) ==
    [kind |-> kind, start |-> start, end |-> end, parent |-> parent]

AddLeaf(st, kind) ==
    [st EXCEPT !.nodes = Append(@, NewNode(kind, st.pos, st.pos + 1, CurParent(st))),
               !.pos = @ + 1]

OpenNode(st, kind, expect) ==
    [st EXCEPT !.nodes = Append(@, NewNode(kind, st.pos, -1, CurParent(st))),
               !.stack = Append(@, Len(st.nodes) + 1),
               !.expect = expect,
               !.pos = @ + 1]

Bad(st) ==
    [st EXCEPT !.nodes = Append(@, NewNode("ERROR", st.pos, st.pos + 1, CurParent(st))),
               !.err = TRUE,
               !.pos = @ + 1]

TsItemKinds == {"class_declaration", "method_definition"}

\* "}" closes the innermost body; a body that belongs to an item closes the item too.
CloseBody(st) ==
    LET body == Top(st.stack)
        owner == st.nodes[body].parent
        ownerIsItem == owner # 0 /\ st.nodes[owner].kind \in ItemKinds \cup TsItemKinds
        closed == [st.nodes EXCEPT ![body].end = st.pos + 1]
    IN  IF ownerIsItem
        THEN [st EXCEPT !.nodes = [closed EXCEPT ![owner].end = st.pos + 1],
                        !.stack = Pop(Pop(@)),
                        !.pos = @ + 1]
        ELSE [st EXCEPT !.nodes = closed, !.stack = Pop(@), !.pos = @ + 1]

ParseStep(st, b) ==
    LET ctx == Ctx(st) IN
    IF IsWhitespace(b) THEN [st EXCEPT !.pos = @ + 1]
    ELSE IF st.expect = "name" THEN
        IF b \in Idents
        THEN [st EXCEPT !.nodes = Append(@, NewNode(NameKindOf(ctx), st.pos, st.pos + 1,
                                                    Top(st.stack))),
                        !.expect = "open",
                        !.pos = @ + 1]
        ELSE Bad(st)
    ELSE IF st.expect = "open" THEN
        IF b = "{" THEN OpenNode(st, BodyKindOf(ctx), "none") ELSE Bad(st)
    ELSE IF ctx \in {"source_file", "declaration_list"} THEN
        CASE b = "#" -> AddLeaf(st, "attribute_item")
          [] b = "/" -> AddLeaf(st, "line_comment")
          [] b = "f" -> OpenNode(st, "function_item", "name")
          [] b = "C" -> OpenNode(st, "const_item", "name")
          [] b = "S" /\ ctx = "source_file" -> OpenNode(st, "struct_item", "name")
          [] b = "I" /\ ctx = "source_file" -> OpenNode(st, "impl_item", "name")
          [] b = "T" /\ ctx = "source_file" -> OpenNode(st, "trait_item", "name")
          [] b = "}" /\ ctx = "declaration_list" -> CloseBody(st)
          [] OTHER -> Bad(st)
    ELSE IF ctx = "block" THEN
        CASE b \in {"s", "t"} -> AddLeaf(st, "expression_statement")
          [] b = "/" -> AddLeaf(st, "line_comment")
          [] b = "{" -> OpenNode(st, "block", "none")
          [] b = "}" -> CloseBody(st)
          [] OTHER -> Bad(st)
    ELSE \* field_declaration_list
        CASE b \in {"x", "y"} -> AddLeaf(st, "field_declaration")
          [] b = "/" -> AddLeaf(st, "line_comment")
          [] b = "}" -> CloseBody(st)
          [] OTHER -> Bad(st)

RECURSIVE ParseFrom(_, _)
ParseFrom(src, st) ==
    IF st.pos >= Len(src) THEN st ELSE ParseFrom(src, ParseStep(st, src[st.pos + 1]))

\* Unclosed nodes run to the end of the text and make the tree erroneous.
parse(src) ==
    With(ParseFrom(src, [pos |-> 0, nodes |-> <<>>, stack |-> <<>>,
                         expect |-> "none", err |-> FALSE]),
         LAMBDA st :
            [nodes |-> [i \in 1..Len(st.nodes) |->
                           IF st.nodes[i].end = -1
                           THEN [st.nodes[i] EXCEPT !.end = Len(src)]
                           ELSE st.nodes[i]],
             err |-> st.err \/ st.stack # <<>> \/ st.expect # "none"])

\* The TypeScript grammar.
TsBodyKindOf(itemKind) ==
    IF itemKind = "class_declaration" THEN "class_body" ELSE "statement_block"

TsNameKindOf(itemKind) ==
    IF itemKind = "class_declaration" THEN "type_identifier" ELSE "property_identifier"

TsParseStep(st, b) ==
    LET ctx == Ctx(st) IN
    IF IsWhitespace(b) THEN [st EXCEPT !.pos = @ + 1]
    ELSE IF st.expect = "name" THEN
        IF b \in Idents
        THEN [st EXCEPT !.nodes = Append(@, NewNode(TsNameKindOf(ctx), st.pos, st.pos + 1,
                                                    Top(st.stack))),
                        !.expect = "open",
                        !.pos = @ + 1]
        ELSE Bad(st)
    ELSE IF st.expect = "open" THEN
        IF b = "{" THEN OpenNode(st, TsBodyKindOf(ctx), "none") ELSE Bad(st)
    ELSE IF ctx = "source_file" THEN
        CASE b = "K" -> OpenNode(st, "class_declaration", "name")
          [] b = "/" -> AddLeaf(st, "comment")
          [] b \in {"s", "t"} -> AddLeaf(st, "expression_statement")
          [] OTHER -> Bad(st)
    ELSE IF ctx = "class_body" THEN
        CASE b = "m" -> OpenNode(st, "method_definition", "name")
          [] b = "p" -> AddLeaf(st, "public_field_definition")
          [] b = "/" -> AddLeaf(st, "comment")
          [] b = "}" -> CloseBody(st)
          [] OTHER -> Bad(st)
    ELSE \* statement_block
        CASE b \in {"s", "t"} -> AddLeaf(st, "expression_statement")
          [] b = "/" -> AddLeaf(st, "comment")
          [] b = "{" -> OpenNode(st, "statement_block", "none")
          [] b = "}" -> CloseBody(st)
          [] OTHER -> Bad(st)

RECURSIVE TsParseFrom(_, _)
TsParseFrom(src, st) ==
    IF st.pos >= Len(src) THEN st ELSE TsParseFrom(src, TsParseStep(st, src[st.pos + 1]))

parse_ts(src) ==
    With(TsParseFrom(src, [pos |-> 0, nodes |-> <<>>, stack |-> <<>>,
                           expect |-> "none", err |-> FALSE]),
         LAMBDA st :
            [nodes |-> [i \in 1..Len(st.nodes) |->
                           IF st.nodes[i].end = -1
                           THEN [st.nodes[i] EXCEPT !.end = Len(src)]
                           ELSE st.nodes[i]],
             err |-> st.err \/ st.stack # <<>> \/ st.expect # "none"])

\* parser::parse(source, language)
parse_language(src, language) ==
    IF language = "Rust" THEN parse(src) ELSE parse_ts(src)

(***************************************************************************)
(* Tree navigation                                                         *)
(***************************************************************************)
Max(S) == CHOOSE x \in S : \A y \in S : y <= x

Min(S) == CHOOSE x \in S : \A y \in S : x <= y

\* Node::prev_sibling: 0 when there is none.
prev_sibling(tree, i) ==
    LET before == {j \in 1..(i - 1) : tree.nodes[j].parent = tree.nodes[i].parent}
    IN  IF before = {} THEN 0 ELSE Max(before)

\* Node::children, in order.
children(tree, i) == {j \in 1..Len(tree.nodes) : tree.nodes[j].parent = i}

\* Node::child_by_field_name("body"): 0 when there is none.  The block of a
\* const_item is its value, not its body.
body_field(tree, i) ==
    LET bs == {j \in children(tree, i) :
                  tree.nodes[j].kind \in {"block", "field_declaration_list", "declaration_list",
                                          "class_body", "statement_block"}}
    IN  IF bs = {} \/ tree.nodes[i].kind = "const_item" THEN 0 ELSE Min(bs)

\* Node::child_by_field_name("name"): 0 when there is none.  The identifier of
\* an impl_item is its type, not its name.
name_field(tree, i) ==
    LET ns == {j \in children(tree, i) :
                  tree.nodes[j].kind \in {"identifier", "type_identifier",
                                          "property_identifier"}}
    IN  IF ns = {} \/ tree.nodes[i].kind = "impl_item" THEN 0 ELSE Min(ns)

\* start_position().row + 1 of a byte offset.
LineOf(src, byte) == CountNL(src, byte) + 1

\* Variant: steps over one attribute only.
AttrStartNode_single(tree, i) ==
    LET prev == prev_sibling(tree, i)
    IN  IF prev # 0 /\ tree.nodes[prev].kind = "attribute_item" THEN prev ELSE i

\* Variant: the walk steps over comments as well.
RECURSIVE AttrStartNode_over_comments(_, _)
AttrStartNode_over_comments(tree, i) ==
    LET prev == prev_sibling(tree, i)
    IN  IF prev # 0 /\ tree.nodes[prev].kind \in {"attribute_item", "line_comment"}
        THEN AttrStartNode_over_comments(tree, prev)
        ELSE i

RECURSIVE AttrStartNode(_, _)
AttrStartNode(tree, i) ==
    LET prev == prev_sibling(tree, i)
    IN  IF prev # 0 /\ tree.nodes[prev].kind = "attribute_item"
        THEN AttrStartNode(tree, prev)
        ELSE i

find_attr_start(src, tree, i) ==
    With(AttrStartNode(tree, i),
         LAMBDA first : [byte |-> tree.nodes[first].start,
                         line |-> LineOf(src, tree.nodes[first].start)])

(***************************************************************************)
(* The expand query: every item that has a name, in traversal order; the   *)
(* resolved name is the text of the name (or impl type) capture.           *)
(***************************************************************************)
name_capture(tree, i) ==
    LET ns == {j \in children(tree, i) :
                  tree.nodes[j].kind \in {"identifier", "type_identifier"}}
    IN  IF ns = {} THEN 0 ELSE Min(ns)

query_matches(tree) ==
    {i \in 1..Len(tree.nodes) :
        tree.nodes[i].kind \in ItemKinds /\ name_capture(tree, i) # 0}

resolved_name(src, tree, i) ==
    LET n == tree.nodes[name_capture(tree, i)] IN Slice(src, n.start, n.end)

node_kind_to_item_kind(kind) ==
    CASE kind = "function_item" -> "Function"
      [] kind = "struct_item" -> "Struct"
      [] kind = "impl_item" -> "Impl"
      [] kind = "const_item" -> "Const"
      [] kind = "trait_item" -> "Trait"
      [] OTHER -> "None"

\* expand::extract, as the set of nodes it turns into items.
extract(src, tree, symbols) ==
    {i \in query_matches(tree) :
        /\ \E s \in symbols : resolved_name(src, tree, i) = <<s>>
        /\ node_kind_to_item_kind(tree.nodes[i].kind) # "None"}

(***************************************************************************)
(* Results                                                                 *)
(***************************************************************************)
NotFound == "Symbol not found"
NoBody == "Symbol has no body block"
MissingContent == "Missing 'content'"
Overlapping == "Overlapping edit ranges detected"
InvalidSyntax == "Edit resulted in invalid syntax"
Panicked == "panicked: byte index is not a char boundary"

Ok(text) == [ok |-> TRUE, text |-> text, err |-> "", sym |-> ""]

Err(kind, sym) == [ok |-> FALSE, text |-> <<>>, err |-> kind, sym |-> sym]

(***************************************************************************)
(* editor: locating                                                        *)
(***************************************************************************)
\* Variant: every named item matches, whatever the requested name.
matching_any(src, tree, symbol_name) == query_matches(tree)

matching(src, tree, symbol_name) ==
    {i \in query_matches(tree) : resolved_name(src, tree, i) = <<symbol_name>>}

\* Variant: the last node that carries the name is taken.
find_symbol_node_last(src, tree, symbol_name) ==
    With(matching(src, tree, symbol_name),
         LAMBDA ms : IF ms = {} THEN 0 ELSE Max(ms))

\* The node, or 0 for "Symbol not found".
find_symbol_node(src, tree, symbol_name) ==
    With(matching(src, tree, symbol_name),
         LAMBDA ms : IF ms = {} THEN 0 ELSE Min(ms))

\* Variant: the loop of find_symbol_range keeps the last match.
find_symbol_range_node_last(src, tree, symbol_name) ==
    With(matching(src, tree, symbol_name),
         LAMBDA ms : IF ms = {} THEN 0 ELSE Max(ms))

\* The loop of find_symbol_range over the matches of the expand query: the
\* first item whose name, or impl type, is the requested one.
find_symbol_range_node(src, tree, symbol_name) ==
    With(matching(src, tree, symbol_name),
         LAMBDA ms : IF ms = {} THEN 0 ELSE Min(ms))

find_symbol_range(src, tree, symbol_name) ==
    IF extract(src, tree, {symbol_name}) = {}
    THEN [ok |-> FALSE, start |-> 0, end |-> 0]
    ELSE With(find_symbol_range_node(src, tree, symbol_name),
              LAMBDA item_node :
                 IF item_node = 0 THEN [ok |-> FALSE, start |-> 0, end |-> 0]
                 ELSE [ok |-> TRUE,
                       start |-> find_attr_start(src, tree, item_node).byte,
                       end |-> tree.nodes[item_node].end])

body_kinds == {"block"}

\* Variant: the body field is taken whatever its kind.
find_body_node_any_kind(tree, item) ==
    With(body_field(tree, item),
         LAMBDA body :
            IF body # 0 THEN body
            ELSE With({j \in children(tree, item) : tree.nodes[j].kind \in body_kinds},
                      LAMBDA blocks : IF blocks # {} THEN Min(blocks) ELSE 0))

\* The body node, or 0 for "Symbol has no body block".
find_body_node(tree, item) ==
    With(body_field(tree, item),
         LAMBDA body :
            IF body # 0 /\ tree.nodes[body].kind \in body_kinds THEN body
            ELSE With({j \in children(tree, item) : tree.nodes[j].kind \in body_kinds},
                      LAMBDA blocks : IF blocks # {} THEN Min(blocks) ELSE 0))

\* Variant: the re-parse is skipped.
validate_result_unchecked(result) == Ok(result)

validate_result(result) ==
    IF parse(result).err THEN Err(InvalidSyntax, "") ELSE Ok(result)

(***************************************************************************)
(* editor: re-indentation                                                  *)
(***************************************************************************)
\* str::lines: split at "\n"; a final empty piece is not a line, and a line
\* that ends in "\r\n" loses the "\r" too.
RECURSIVE SplitNL(_, _, _)
SplitNL(s, i, cur) ==
    IF i > Len(s) THEN <<cur>>
    ELSE IF s[i] = NL THEN <<cur>> \o SplitNL(s, i + 1, <<>>)
    ELSE SplitNL(s, i + 1, Append(cur, s[i]))

strip_cr(l) ==
    IF l # <<>> /\ l[Len(l)] = CR THEN SubSeq(l, 1, Len(l) - 1) ELSE l

lines(s) ==
    With(SplitNL(s, 1, <<>>),
         LAMBDA pieces :
            [k \in 1..(IF pieces[Len(pieces)] = <<>> THEN Len(pieces) - 1 ELSE Len(pieces)) |->
                IF k < Len(pieces) THEN strip_cr(pieces[k]) ELSE pieces[k]])

\* l.len() - l.trim_start().len(): the bytes of the leading whitespace characters.
RECURSIVE LeadingWs(_)
LeadingWs(l) ==
    IF l # <<>> /\ IsWhitespace(l[1]) THEN 1 + LeadingWs(Tail(l))
    ELSE IF Len(l) >= 2 /\ SubSeq(l, 1, 2) = NBSP THEN 2 + LeadingWs(SubSeq(l, 3, Len(l)))
    ELSE 0

\* str::is_char_boundary: offset at does not fall inside a character.
is_char_boundary(l, at) ==
    at = 0 \/ at = Len(l) \/ (at < Len(l) /\ l[at + 1] # "A0")

trim_start(l) == SubSeq(l, LeadingWs(l) + 1, Len(l))

IsBlank(l) == LeadingWs(l) = Len(l)

RECURSIVE JoinNL(_)
JoinNL(ls) ==
    IF ls = <<>> THEN <<>>
    ELSE IF Len(ls) = 1 THEN ls[1]
    ELSE ls[1] \o <<NL>> \o JoinNL(Tail(ls))

NestingUnit == <<" ", " ", " ", " ">>

\* Variant: the blank lines count for the least width too.
min_indent_with_blank(ls) ==
    With({LeadingWs(ls[k]) : k \in 1..Len(ls)},
         LAMBDA widths : IF widths = {} THEN 0 ELSE Min(widths))

\* The least leading-whitespace width over the non-blank lines ls; 0 without one.
min_indent(ls) ==
    With({LeadingWs(ls[k]) : k \in {k \in 1..Len(ls) : ~IsBlank(ls[k])}},
         LAMBDA widths : IF widths = {} THEN 0 ELSE Min(widths))

reindent_line(line, inner_indent, m) ==
    IF IsBlank(line) THEN <<>>
    ELSE inner_indent \o (IF Len(line) >= m THEN SubSeq(line, m + 1, Len(line))
                          ELSE trim_start(line))

\* &line[min_indent..] panics when min_indent is not a character boundary.
reindent_panics(body) ==
    With(lines(body),
         LAMBDA ls :
            With(min_indent(ls),
                 LAMBDA m : \E k \in 1..Len(ls) :
                               /\ ~IsBlank(ls[k])
                               /\ Len(ls[k]) >= m
                               /\ ~is_char_boundary(ls[k], m)))

reindent_body(body, base_indent) ==
    With(lines(body),
         LAMBDA ls :
            With(min_indent(ls),
                 LAMBDA m : JoinNL([k \in 1..Len(ls) |->
                                       reindent_line(ls[k], base_indent \o NestingUnit, m)])))

\* source[..body_start].rfind('\n').map(|i| i + 1).unwrap_or(0)
line_start_of(src, body_start) ==
    LET nls == {i \in 1..body_start : src[i] = NL}
    IN  IF nls = {} THEN 0 ELSE Max(nls)

\* The leading whitespace of the line that holds the body's opening brace.
original_indent(src, body_start) ==
    With(Slice(src, line_start_of(src, body_start), body_start),
         LAMBDA prefix : SubSeq(prefix, 1, LeadingWs(prefix)))

\* Variant: the closing brace is not indented.
new_block_flush(src, body_start, new_body) ==
    <<"{", NL>> \o reindent_body(new_body, original_indent(src, body_start)) \o <<NL, "}">>

new_block(src, body_start, new_body) ==
    With(original_indent(src, body_start),
         LAMBDA indent :
            <<"{", NL>> \o reindent_body(new_body, indent) \o <<NL>> \o indent \o <<"}">>)

(***************************************************************************)
(* editor: the single operations                                           *)
(***************************************************************************)
\* Variant: the byte at end is lost.
Splice_off_by_one(src, start, end, replacement) ==
    Slice(src, 0, start) \o replacement \o Tail0(src, end + 1)

Splice(src, start, end, replacement) ==
    Slice(src, 0, start) \o replacement \o Tail0(src, end)

\* Validation ends every operation: a built text is returned only if it re-parses.
validated(built) == IF ~built.ok THEN built ELSE validate_result(built.text)

\* The text replace builds, before it is validated.
replace_spliced(src, symbol_name, new_content) ==
    With(find_symbol_range(src, parse(src), symbol_name),
         LAMBDA r : IF ~r.ok THEN Err(NotFound, symbol_name)
                    ELSE Ok(Splice(src, r.start, r.end, new_content)))

replace(src, symbol_name, new_content) ==
    validated(replace_spliced(src, symbol_name, new_content))

\* Variant: every newline that follows the node goes with it.
RECURSIVE effective_end_greedy(_, _)
effective_end_greedy(src, end_byte) ==
    IF end_byte < Len(src) /\ src[end_byte + 1] = NL
    THEN effective_end_greedy(src, end_byte + 1)
    ELSE end_byte

\* One trailing newline right after the node goes with it.
effective_end(src, end_byte) ==
    IF end_byte < Len(src) /\ src[end_byte + 1] = NL THEN end_byte + 1 ELSE end_byte

delete_spliced(src, symbol_name) ==
    With(find_symbol_range(src, parse(src), symbol_name),
         LAMBDA r : IF ~r.ok THEN Err(NotFound, symbol_name)
                    ELSE Ok(Splice(src, r.start, effective_end(src, r.end), <<>>)))

delete(src, symbol_name) ==
    validated(delete_spliced(src, symbol_name))

\* The body range of a symbol and the block that replaces it, shared by
\* replace_body and the ReplaceBody arm of batch.
body_edit(src, tree, symbol_name, new_body) ==
    With(find_symbol_node(src, tree, symbol_name),
         LAMBDA item_node :
            IF item_node = 0 THEN [ok |-> FALSE, err |-> NotFound, sym |-> symbol_name]
            ELSE With(find_body_node(tree, item_node),
                      LAMBDA body_node :
                         IF body_node = 0 THEN [ok |-> FALSE, err |-> NoBody, sym |-> ""]
                         ELSE IF reindent_panics(new_body)
                         THEN [ok |-> FALSE, err |-> Panicked, sym |-> ""]
                         ELSE [ok |-> TRUE,
                               start |-> tree.nodes[body_node].start,
                               end |-> tree.nodes[body_node].end,
                               replacement |-> new_block(src, tree.nodes[body_node].start,
                                                         new_body)]))

replace_body_spliced(src, symbol_name, new_body) ==
    With(body_edit(src, parse(src), symbol_name, new_body),
         LAMBDA e : IF ~e.ok THEN Err(e.err, e.sym)
                    ELSE Ok(Splice(src, e.start, e.end, e.replacement)))

replace_body(src, symbol_name, new_body) ==
    validated(replace_body_spliced(src, symbol_name, new_body))

symbol_line_range(src, symbol_name) ==
    With(find_symbol_range(src, parse(src), symbol_name),
         LAMBDA r :
            IF ~r.ok THEN [ok |-> FALSE, err |-> NotFound, sym |-> symbol_name,
                           line_start |-> 0, line_end |-> 0]
            ELSE [ok |-> TRUE, err |-> "", sym |-> "",
                  line_start |-> CountNL(src, r.start) + 1,
                  line_end |-> CountNL(src, r.end) + 1])

(***************************************************************************)
(* editor: batch                                                           *)
(***************************************************************************)
None == [some |-> FALSE, text |-> <<>>]

Some(text) == [some |-> TRUE, text |-> text]

BatchEdit(symbol, action, content) ==
    [symbol |-> symbol, action |-> action, content |-> content]

ResolvedEdit(start, end, replacement) ==
    [ok |-> TRUE, start |-> start, end |-> end, replacement |-> replacement]

Unresolved(kind, sym) ==
    [ok |-> FALSE, err |-> kind, sym |-> sym]

\* Variant: a Replace or ReplaceBody descriptor without content is taken as a
\* deletion of its symbol.
resolve_content_optional(src, tree, edit) ==
    IF edit.action = "replace-body" /\ edit.content.some
    THEN body_edit(src, tree, edit.symbol, edit.content.text)
    ELSE With(find_symbol_range(src, tree, edit.symbol),
              LAMBDA r : IF ~r.ok THEN Unresolved(NotFound, edit.symbol)
                         ELSE IF edit.action = "replace" /\ edit.content.some
                         THEN ResolvedEdit(r.start, r.end, edit.content.text)
                         ELSE ResolvedEdit(r.start, effective_end(src, r.end), <<>>))

\* One iteration of the resolving loop.
\* Variant: the Delete arm leaves the trailing newline in place.
resolve_delete_keeps_newline(src, tree, edit) ==
    IF edit.action = "replace" THEN
        IF ~edit.content.some THEN Unresolved(MissingContent, edit.symbol)
        ELSE With(find_symbol_range(src, tree, edit.symbol),
                  LAMBDA r : IF ~r.ok THEN Unresolved(NotFound, edit.symbol)
                             ELSE ResolvedEdit(r.start, r.end, edit.content.text))
    ELSE IF edit.action = "replace-body" THEN
        IF ~edit.content.some THEN Unresolved(MissingContent, edit.symbol)
        ELSE body_edit(src, tree, edit.symbol, edit.content.text)
    ELSE
        With(find_symbol_range(src, tree, edit.symbol),
             LAMBDA r : IF ~r.ok THEN Unresolved(NotFound, edit.symbol)
                        ELSE ResolvedEdit(r.start, r.end, <<>>))

resolve(src, tree, edit) ==
    IF edit.action = "replace" THEN
        IF ~edit.content.some THEN Unresolved(MissingContent, edit.symbol)
        ELSE With(find_symbol_range(src, tree, edit.symbol),
                  LAMBDA r : IF ~r.ok THEN Unresolved(NotFound, edit.symbol)
                             ELSE ResolvedEdit(r.start, r.end, edit.content.text))
    ELSE IF edit.action = "replace-body" THEN
        IF ~edit.content.some THEN Unresolved(MissingContent, edit.symbol)
        ELSE body_edit(src, tree, edit.symbol, edit.content.text)
    ELSE \* delete
        With(find_symbol_range(src, tree, edit.symbol),
             LAMBDA r : IF ~r.ok THEN Unresolved(NotFound, edit.symbol)
                        ELSE ResolvedEdit(r.start, effective_end(src, r.end), <<>>))

\* Variant: a descriptor that fails to resolve is skipped.
RECURSIVE resolve_all_lenient(_, _, _, _)
resolve_all_lenient(src, tree, edits, resolved) ==
    IF edits = <<>> THEN [ok |-> TRUE, resolved |-> resolved]
    ELSE With(resolve(src, tree, Head(edits)),
              LAMBDA r : resolve_all_lenient(src, tree, Tail(edits),
                             IF r.ok THEN Append(resolved, r) ELSE resolved))

\* Variant: the loop goes on after a failure and the last failure is reported.
RECURSIVE resolve_all_last_failure(_, _, _, _)
resolve_all_last_failure(src, tree, edits, resolved) ==
    IF edits = <<>> THEN [ok |-> TRUE, resolved |-> resolved]
    ELSE With(resolve(src, tree, Head(edits)),
              LAMBDA r :
                 With(resolve_all_last_failure(src, tree, Tail(edits), Append(resolved, r)),
                      LAMBDA rest : IF ~r.ok /\ rest.ok THEN r ELSE rest))

\* The loop over the edits: the resolved edits in input order, or the first failure.
RECURSIVE resolve_all(_, _, _, _)
resolve_all(src, tree, edits, resolved) ==
    IF edits = <<>> THEN [ok |-> TRUE, resolved |-> resolved]
    ELSE With(resolve(src, tree, Head(edits)),
              LAMBDA r : IF ~r.ok THEN r
                         ELSE resolve_all(src, tree, Tail(edits), Append(resolved, r)))

\* sort_by(|a, b| b.start.cmp(&a.start)): stable, descending start.
RECURSIVE InsertDesc(_, _)
InsertDesc(sorted, e) ==
    IF sorted = <<>> THEN <<e>>
    ELSE IF Head(sorted).start >= e.start THEN <<Head(sorted)>> \o InsertDesc(Tail(sorted), e)
    ELSE <<e>> \o sorted

\* Variant: the edits stay in input order.
sort_desc_unsorted(es) == es

RECURSIVE sort_desc(_)
sort_desc(es) ==
    IF es = <<>> THEN <<>>
    ELSE InsertDesc(sort_desc(SubSeq(es, 1, Len(es) - 1)), es[Len(es)])

\* Variant: ranges that touch count as overlapping.
has_overlap_touching(sorted) ==
    \E k \in 1..(Len(sorted) - 1) : sorted[k + 1].end >= sorted[k].start

\* for w in resolved.windows(2) { if w[1].end > w[0].start { Err } }
has_overlap(sorted) ==
    \E k \in 1..(Len(sorted) - 1) : sorted[k + 1].end > sorted[k].start

\* Variant: the splice of the lowest range is left out.
RECURSIVE apply_all_but_last(_, _)
apply_all_but_last(result, sorted) ==
    IF Len(sorted) <= 1 THEN result
    ELSE apply_all_but_last(Splice(result, Head(sorted).start, Head(sorted).end,
                                   Head(sorted).replacement),
                            Tail(sorted))

RECURSIVE apply_all(_, _)
apply_all(result, sorted) ==
    IF sorted = <<>> THEN result
    ELSE apply_all(Splice(result, Head(sorted).start, Head(sorted).end,
                          Head(sorted).replacement),
                   Tail(sorted))

\* The text batch builds, before it is validated.
batch_spliced(src, edits) ==
    With(resolve_all(src, parse(src), edits, <<>>),
         LAMBDA r :
            IF ~r.ok THEN Err(r.err, r.sym)
            ELSE With(sort_desc(r.resolved),
                      LAMBDA sorted : IF has_overlap(sorted) THEN Err(Overlapping, "")
                                      ELSE Ok(apply_all(src, sorted))))

\* Variant: an empty list of edits is refused.
batch_refusing_empty(src, edits) ==
    IF edits = <<>> THEN Err(MissingContent, "")
    ELSE validated(batch_spliced(src, edits))

batch(src, edits) ==
    validated(batch_spliced(src, edits))

(***************************************************************************)
(* extractor: collapsing bodies                                            *)
(***************************************************************************)
Placeholder == <<"{", SP, ".", ".", ".", SP, "}">>

\* str::trim_end_matches(['\n', '\r'])
RECURSIVE trim_end_newlines(_)
trim_end_newlines(t) ==
    IF t # <<>> /\ t[Len(t)] \in {NL, CR} THEN trim_end_newlines(SubSeq(t, 1, Len(t) - 1))
    ELSE t

RECURSIVE trim_end(_)
trim_end(t) ==
    IF t # <<>> /\ IsWhitespace(t[Len(t)]) THEN trim_end(SubSeq(t, 1, Len(t) - 1))
    ELSE IF Len(t) >= 2 /\ SubSeq(t, Len(t) - 1, Len(t)) = NBSP
    THEN trim_end(SubSeq(t, 1, Len(t) - 2))
    ELSE t

trim(t) == trim_end(trim_start(t))

\* Variant: the signature loses all its trailing whitespace and one space is put.
collapse_body_normalized(src, item_start, item_end, body_start, body_end) ==
    trim_end(Slice(src, item_start, body_start)) \o <<SP>> \o Placeholder
        \o trim(Slice(src, body_end, item_end))

collapse_body(src, item_start, item_end, body_start, body_end) ==
    With(trim_end_newlines(Slice(src, item_start, body_start)),
         LAMBDA before_trimmed :
            IF before_trimmed # <<>> /\ before_trimmed[Len(before_trimmed)] \in {SP, "\t"}
            THEN before_trimmed \o Placeholder \o trim(Slice(src, body_end, item_end))
            ELSE before_trimmed \o <<SP>> \o Placeholder
                     \o trim(Slice(src, body_end, item_end)))

FnKinds == {"function_item", "method_definition"}

\* The kinds collect_fn_bodies descends through.
WrapperKinds ==
    {"declaration_list", "class_body", "interface_body", "class_declaration",
     "abstract_class_declaration", "interface_declaration", "export_statement"}

\* Variant: the members are looked for among the direct children only.
collect_fn_bodies_direct(tree, node) ==
    {body_field(tree, c) :
        c \in {c \in children(tree, node) :
                  tree.nodes[c].kind \in FnKinds /\ body_field(tree, c) # 0}}

\* The body nodes of the function-like members of node.
RECURSIVE collect_fn_bodies(_, _)
collect_fn_bodies(tree, node) ==
    UNION {IF tree.nodes[c].kind \in FnKinds
           THEN (IF body_field(tree, c) # 0 THEN {body_field(tree, c)} ELSE {})
           ELSE IF tree.nodes[c].kind \in WrapperKinds THEN collect_fn_bodies(tree, c)
           ELSE {} : c \in children(tree, node)}

\* body_ranges.sort_by_key(|&(s, _)| s)
RECURSIVE sort_by_start(_, _)
sort_by_start(tree, bodies) ==
    IF bodies = {} THEN <<>>
    ELSE With(CHOOSE b \in bodies : \A c \in bodies : tree.nodes[b].start <= tree.nodes[c].start,
              LAMBDA first : <<first>> \o sort_by_start(tree, bodies \ {first}))

\* The loop that copies the text between the bodies and puts the placeholder.
RECURSIVE collapse_ranges(_, _, _, _, _)
collapse_ranges(src, tree, pos, body_ranges, end_byte) ==
    IF body_ranges = <<>> THEN Slice(src, pos, end_byte)
    ELSE Slice(src, pos, tree.nodes[Head(body_ranges)].start) \o Placeholder
             \o collapse_ranges(src, tree, tree.nodes[Head(body_ranges)].end,
                                Tail(body_ranges), end_byte)

collapse_block(src, start_byte, tree, block_node) ==
    collapse_ranges(src, tree, start_byte,
                    sort_by_start(tree, collect_fn_bodies(tree, block_node)),
                    tree.nodes[block_node].end)

\* build_source_line_mappings: the lines of a content, numbered from start_line.
build_source_line_mappings(content, start_line) ==
    With(lines(content),
         LAMBDA content_lines :
            [n \in 1..Len(content_lines) |->
                [line |-> start_line + (n - 1), text |-> content_lines[n]]])

\* The 0-based line of the opening and of the closing delimiter of each body.
body_line_ranges(src, tree, body_ranges) ==
    [n \in 1..Len(body_ranges) |->
        [s |-> CountNL(src, tree.nodes[body_ranges[n]].start),
         e |-> CountNL(src, tree.nodes[body_ranges[n]].end)]]

\* Variant: the walk resumes on the closing line of a body.
RECURSIVE surviving_source_lines_with_close(_, _, _)
surviving_source_lines_with_close(src_line, last_line, ranges) ==
    IF src_line > last_line THEN <<>>
    ELSE IF \E n \in 1..Len(ranges) : ranges[n].s = src_line
    THEN <<src_line>>
             \o surviving_source_lines_with_close(
                    IF ranges[Min({n \in 1..Len(ranges) : ranges[n].s = src_line})].e > src_line
                    THEN ranges[Min({n \in 1..Len(ranges) : ranges[n].s = src_line})].e
                    ELSE src_line + 1,
                    last_line, ranges)
    ELSE <<src_line>> \o surviving_source_lines_with_close(src_line + 1, last_line, ranges)

\* The source lines that survive the collapse: the walk of
\* build_collapsed_block_mappings from src_line to last_line.
RECURSIVE surviving_source_lines(_, _, _)
surviving_source_lines(src_line, last_line, ranges) ==
    IF src_line > last_line THEN <<>>
    ELSE IF \E n \in 1..Len(ranges) : ranges[n].s = src_line
    THEN <<src_line>>
             \o surviving_source_lines(
                    ranges[Min({n \in 1..Len(ranges) : ranges[n].s = src_line})].e + 1,
                    last_line, ranges)
    ELSE IF \E n \in 1..Len(ranges) : src_line > ranges[n].s /\ src_line <= ranges[n].e
    THEN surviving_source_lines(src_line + 1, last_line, ranges)
    ELSE <<src_line>> \o surviving_source_lines(src_line + 1, last_line, ranges)

build_collapsed_block_mappings(src, tree, end_byte, body_ranges, start_line, collapsed_content) ==
    With(surviving_source_lines(start_line - 1, CountNL(src, end_byte),
                                body_line_ranges(src, tree, body_ranges)),
         LAMBDA surviving :
            With(lines(collapsed_content),
                 LAMBDA content_lines :
                    [n \in 1..Len(content_lines) |->
                        [line |-> IF n <= Len(surviving) THEN surviving[n] + 1
                                  ELSE start_line + (n - 1),
                         text |-> content_lines[n]]]))

\* The second component of collapse_block: the line mappings of the content.
collapse_block_mappings(src, start_byte, tree, block_node) ==
    build_collapsed_block_mappings(src, tree, tree.nodes[block_node].end,
                                   sort_by_start(tree, collect_fn_bodies(tree, block_node)),
                                   LineOf(src, start_byte),
                                   collapse_block(src, start_byte, tree, block_node))

\* The text of the name field of node i, as an Option.
name_of(src, tree, i) ==
    With(name_field(tree, i),
         LAMBDA n : IF n = 0 THEN None
                    ELSE Some(Slice(src, tree.nodes[n].start, tree.nodes[n].end)))

\* Variant: every member is collapsed, whatever the names to keep.
collect_fn_bodies_except_none(src, tree, node, keep_expanded) ==
    collect_fn_bodies(tree, node)

RECURSIVE collect_fn_bodies_except(_, _, _, _)
collect_fn_bodies_except(src, tree, node, keep_expanded) ==
    UNION {IF tree.nodes[c].kind \in FnKinds
           THEN (IF name_of(src, tree, c).some /\ name_of(src, tree, c).text \in keep_expanded
                 THEN {}
                 ELSE IF body_field(tree, c) # 0 THEN {body_field(tree, c)} ELSE {})
           ELSE IF tree.nodes[c].kind \in WrapperKinds
           THEN collect_fn_bodies_except(src, tree, c, keep_expanded)
           ELSE {} : c \in children(tree, node)}

collapse_block_except(src, start_byte, tree, block_node, keep_expanded) ==
    collapse_ranges(src, tree, start_byte,
                    sort_by_start(tree, collect_fn_bodies_except(src, tree, block_node,
                                                                 keep_expanded)),
                    tree.nodes[block_node].end)

\* The second component of collapse_block_except.
collapse_block_except_mappings(src, start_byte, tree, block_node, keep_expanded) ==
    build_collapsed_block_mappings(src, tree, tree.nodes[block_node].end,
                                   sort_by_start(tree,
                                       collect_fn_bodies_except(src, tree, block_node,
                                                                keep_expanded)),
                                   LineOf(src, start_byte),
                                   collapse_block_except(src, start_byte, tree, block_node,
                                                         keep_expanded))

(***************************************************************************)
(* extractor: the items of the interface view, of expand mode and of       *)
(* signatures mode.  An item carries its kind, its name, its 1-based line  *)
(* range, its content, whether it has a collapsed body, and the line       *)
(* mappings of its content: the line number and the text of each line.     *)
(***************************************************************************)
Item(kind, name, line_start, line_end, content, has_body, line_mappings) ==
    [kind |-> kind, name |-> name, line_start |-> line_start, line_end |-> line_end,
     content |-> content, has_body |-> has_body, line_mappings |-> line_mappings]

NoMappings == [some |-> FALSE, entries |-> <<>>]

\* Some(mappings), or the plain numbering of the content when there are none.
mappings_or_source(line_mappings, content, line_start) ==
    [some |-> TRUE,
     entries |-> IF line_mappings = <<>> THEN build_source_line_mappings(content, line_start)
                 ELSE line_mappings]

\* end_position().row + 1
line_end_of(src, tree, i) == LineOf(src, tree.nodes[i].end)

\* The nodes the interface query captures as @item: direct children of the
\* root; a function needs a name and a body, an impl block needs neither.
interface_matches(tree) ==
    {i \in 1..Len(tree.nodes) :
        /\ tree.nodes[i].parent = 0
        /\ \/ tree.nodes[i].kind = "impl_item"
           \/ /\ tree.nodes[i].kind = "function_item"
              /\ name_field(tree, i) # 0
              /\ body_field(tree, i) # 0
           \/ /\ tree.nodes[i].kind \in {"struct_item", "trait_item", "const_item"}
              /\ name_field(tree, i) # 0}

\* extract_impl_name: the text of the type field.
extract_impl_name(src, tree, i) ==
    IF name_capture(tree, i) = 0 THEN None ELSE Some(resolved_name(src, tree, i))

BlockItemKinds == {"impl_item", "trait_item"}

\* The item the interface view builds from a captured node.
interface_item(src, tree, i) ==
    With(find_attr_start(src, tree, i),
         LAMBDA eff :
            Item(node_kind_to_item_kind(tree.nodes[i].kind),
                 IF tree.nodes[i].kind = "impl_item" THEN extract_impl_name(src, tree, i)
                 ELSE name_of(src, tree, i),
                 eff.line,
                 line_end_of(src, tree, i),
                 IF tree.nodes[i].kind \in BlockItemKinds
                 THEN collapse_block(src, eff.byte, tree, i)
                 ELSE IF tree.nodes[i].kind = "function_item"
                 THEN collapse_body(src, eff.byte, tree.nodes[i].end,
                                    tree.nodes[body_field(tree, i)].start,
                                    tree.nodes[body_field(tree, i)].end)
                 ELSE Slice(src, eff.byte, tree.nodes[i].end),
                 tree.nodes[i].kind = "function_item",
                 IF tree.nodes[i].kind \in BlockItemKinds
                 THEN mappings_or_source(collapse_block_mappings(src, eff.byte, tree, i),
                                         collapse_block(src, eff.byte, tree, i), eff.line)
                 ELSE IF tree.nodes[i].kind = "function_item"
                 THEN mappings_or_source(<<>>,
                                         collapse_body(src, eff.byte, tree.nodes[i].end,
                                                       tree.nodes[body_field(tree, i)].start,
                                                       tree.nodes[body_field(tree, i)].end),
                                         eff.line)
                 ELSE mappings_or_source(<<>>, Slice(src, eff.byte, tree.nodes[i].end),
                                         eff.line)))

\* The item extract_methods_from_block builds from a function of a block.
method_item(src, tree, child) ==
    With(find_attr_start(src, tree, child),
         LAMBDA eff :
            Item("Method",
                 name_of(src, tree, child),
                 eff.line,
                 line_end_of(src, tree, child),
                 IF body_field(tree, child) # 0
                 THEN collapse_body(src, eff.byte, tree.nodes[child].end,
                                    tree.nodes[body_field(tree, child)].start,
                                    tree.nodes[body_field(tree, child)].end)
                 ELSE Slice(src, eff.byte, tree.nodes[child].end),
                 body_field(tree, child) # 0,
                 mappings_or_source(<<>>,
                     IF body_field(tree, child) # 0
                     THEN collapse_body(src, eff.byte, tree.nodes[child].end,
                                        tree.nodes[body_field(tree, child)].start,
                                        tree.nodes[body_field(tree, child)].end)
                     ELSE Slice(src, eff.byte, tree.nodes[child].end),
                     eff.line)))

\* items.entry(line_start).or_insert(item) on a map kept as the sequence of its
\* values in key order: the first item of a line stays.
or_insert(items_map, item) ==
    IF \E k \in 1..Len(items_map) : items_map[k].line_start = item.line_start
    THEN items_map
    ELSE With(Cardinality({k \in 1..Len(items_map) :
                              items_map[k].line_start < item.line_start}),
              LAMBDA n : SubSeq(items_map, 1, n) \o <<item>>
                             \o SubSeq(items_map, n + 1, Len(items_map)))

\* The functions extract_methods_from_block visits, in order.
block_methods(tree, block_node) ==
    With(body_field(tree, block_node),
         LAMBDA decl_list :
            IF decl_list = 0 \/ tree.nodes[decl_list].kind # "declaration_list" THEN {}
            ELSE {c \in children(tree, decl_list) : tree.nodes[c].kind = "function_item"})

RECURSIVE extract_methods_from_block(_, _, _, _)
extract_methods_from_block(src, tree, methods, items_map) ==
    IF methods = {} THEN items_map
    ELSE extract_methods_from_block(src, tree, methods \ {Min(methods)},
                                    or_insert(items_map, method_item(src, tree, Min(methods))))

\* The loop of interface::extract over the matches that are left.
RECURSIVE interface_loop(_, _, _, _)
interface_loop(src, tree, matches, items_map) ==
    IF matches = {} THEN items_map
    ELSE With(Min(matches),
              LAMBDA i :
                 interface_loop(src, tree, matches \ {i},
                     IF tree.nodes[i].kind \in BlockItemKinds
                     THEN extract_methods_from_block(src, tree, block_methods(tree, i),
                              or_insert(items_map, interface_item(src, tree, i)))
                     ELSE or_insert(items_map, interface_item(src, tree, i))))

interface_extract(src, tree) == interface_loop(src, tree, interface_matches(tree), <<>>)

\* The nodes the expand query of a language captures as @item.
expand_matches(tree, language) ==
    IF language = "Rust" THEN query_matches(tree)
    ELSE {i \in 1..Len(tree.nodes) :
             /\ tree.nodes[i].kind = "class_declaration"
             /\ name_field(tree, i) # 0
             /\ body_field(tree, i) # 0}

\* LanguageExtractor::node_kind_to_item_kind
item_kind(kind, language) ==
    IF language = "Rust" THEN node_kind_to_item_kind(kind)
    ELSE CASE kind = "class_declaration" -> "Class"
           [] kind = "method_definition" -> "Method"
           [] OTHER -> "None"

\* The item expand mode builds from a node: the whole text.
full_item(src, tree, i, name, language) ==
    With(find_attr_start(src, tree, i),
         LAMBDA eff :
            Item(item_kind(tree.nodes[i].kind, language), name, eff.line,
                 line_end_of(src, tree, i), Slice(src, eff.byte, tree.nodes[i].end), FALSE,
                 NoMappings))

\* items.sort_by_key(|item| item.line_start): a stable sort.
RECURSIVE sort_by_line_start(_)
sort_by_line_start(items) ==
    IF items = <<>> THEN <<>>
    ELSE With(sort_by_line_start(SubSeq(items, 1, Len(items) - 1)),
              LAMBDA sorted :
                 With(Cardinality({k \in 1..Len(sorted) :
                                     sorted[k].line_start <= items[Len(items)].line_start}),
                      LAMBDA n : SubSeq(sorted, 1, n) \o <<items[Len(items)]>>
                                     \o SubSeq(sorted, n + 1, Len(sorted))))

RECURSIVE expand_loop(_, _, _, _, _)
expand_loop(src, tree, matches, symbols, language) ==
    IF matches = {} THEN <<>>
    ELSE With(Min(matches),
              LAMBDA i :
                 (IF /\ \E k \in 1..Len(symbols) : resolved_name(src, tree, i) = <<symbols[k]>>
                     /\ item_kind(tree.nodes[i].kind, language) # "None"
                  THEN <<full_item(src, tree, i, Some(resolved_name(src, tree, i)), language)>>
                  ELSE <<>>)
                 \o expand_loop(src, tree, matches \ {i}, symbols, language))

\* expand::extract, as the items it returns.
expand_extract(src, tree, symbols, language) ==
    sort_by_line_start(expand_loop(src, tree, expand_matches(tree, language), symbols,
                                   language))

\* The matches of extract_signatures that pass its tests: the @name capture
\* is the class name and the node kind is an item kind.
signature_matches(src, tree, class_name, language) ==
    {i \in expand_matches(tree, language) :
        /\ name_of(src, tree, i) = Some(<<class_name>>)
        /\ item_kind(tree.nodes[i].kind, language) # "None"}

extract_signatures(src, tree, class_name, expand_methods, language) ==
    With(signature_matches(src, tree, class_name, language),
         LAMBDA found :
            IF found = {} THEN <<>>
            ELSE With(Min(found),
                 LAMBDA i :
                    IF item_kind(tree.nodes[i].kind, language) # "Class"
                    THEN <<full_item(src, tree, i, name_of(src, tree, i), language)>>
                    ELSE With(find_attr_start(src, tree, i),
                         LAMBDA eff :
                            <<Item("Class", name_of(src, tree, i), eff.line,
                                   line_end_of(src, tree, i),
                                   IF expand_methods = <<>>
                                   THEN collapse_block(src, eff.byte, tree, i)
                                   ELSE collapse_block_except(src, eff.byte, tree, i,
                                            {<<expand_methods[k]>> :
                                                k \in 1..Len(expand_methods)}),
                                   FALSE,
                                   IF expand_methods = <<>>
                                   THEN mappings_or_source(
                                            collapse_block_mappings(src, eff.byte, tree, i),
                                            collapse_block(src, eff.byte, tree, i), eff.line)
                                   ELSE mappings_or_source(
                                            collapse_block_except_mappings(src, eff.byte,
                                                tree, i,
                                                {<<expand_methods[k]>> :
                                                    k \in 1..Len(expand_methods)}),
                                            collapse_block_except(src, eff.byte, tree, i,
                                                {<<expand_methods[k]>> :
                                                    k \in 1..Len(expand_methods)}),
                                            eff.line))>>)))

process_file(src, language, symbols, expand_mode, signatures, expand_methods) ==
    With(parse_language(src, language),
         LAMBDA tree :
            IF signatures /\ symbols # <<>>
            THEN extract_signatures(src, tree, symbols[1], expand_methods, language)
            ELSE IF expand_mode THEN expand_extract(src, tree, symbols, language)
            ELSE interface_extract(src, tree))

\* The filter of process_path when no option asks for a kind: methods are hidden.
filtered(items) == SelectSeq(items, LAMBDA item : item.kind # "Method")

\* process_path on one file, up to the filter.
process_path(src, language, options) ==
    filtered(IF options.signatures /\ Len(options.symbols) > 1
             THEN process_file(src, language, <<options.symbols[1]>>,
                               options.symbols # <<>>, options.signatures,
                               Tail(options.symbols))
             ELSE process_file(src, language, options.symbols, options.symbols # <<>>,
                               options.signatures, <<>>))

(***************************************************************************)
(* Inputs                                                                  *)
(***************************************************************************)
\* fn a, blank line, fn b
SrcTwoFns ==
    <<"f", "a", "{", "s", "}", NL, NL, "f", "b", "{", "t", "}", NL>>

\* two attributes on fn a, then struct b
SrcAttrs ==
    <<"#", NL, "#", NL, "f", "a", "{", "s", "}", NL, "S", "b", "{", "x", "}", NL>>

\* a comment inside the attribute run of fn a; no newline at the end
SrcComment ==
    <<"#", NL, "/", NL, "#", NL, "f", "a", "{", "s", "}", NL, "f", "b", "{", "s", "}">>

\* impl a with an attributed method b and a method c
SrcImpl ==
    <<"I", "a", "{", NL, SP, "#", NL, SP, "f", "b", "{", NL, SP, SP, "s", NL, SP, "}", NL, SP, "f", "c", "{", "t", "}", NL, "}", NL>>

\* struct a, impl a and method a share the name
SrcSameName ==
    <<"S", "a", "{", "x", "}", NL, "I", "a", "{", NL, SP, "f", "a", "{", "s", "}", NL, "}", NL>>

\* fn a followed by a space; fn b followed by three newlines
SrcInline ==
    <<"f", "a", "{", "s", "}", SP, "f", "b", "{", "t", "}", NL, NL, NL, "f", "c", "{", "s", "}", NL>>

\* the body of fn a opens on its own, indented line
SrcOwnLine ==
    <<"f", "a", NL, SP, SP, "{", NL, SP, SP, "s", NL, SP, SP, "}", NL, "f", "b", "{", "s", "}", NL, "f", "c", "{", "t", "}", NL>>

\* fn b is not closed: the source has a syntax error
SrcBroken ==
    <<"f", "a", "{", "s", "}", NL, "f", "b", "{", NL>>

\* fn A, then fn a and struct a: two names that differ by case only
SrcCase ==
    <<"f", "A", "{", "s", "}", NL, "f", "a", "{", "t", "}", NL, "S", "a", "{", "x", "}", NL>>

\* const a with a block value, struct c, fn b
SrcConst ==
    <<"C", "a", "{", "s", "}", NL, "S", "c", "{", "x", "}", NL, "f", "b", "{", "t", "}", NL>>

Sources ==
    {SrcTwoFns, SrcAttrs, SrcComment, SrcImpl, SrcSameName, SrcInline, SrcOwnLine, SrcBroken,
     SrcCase, SrcConst}

\* a well-formed function
NewFn ==
    <<"f", "a", "{", "t", "}">>

\* an attributed function and a newline
NewAttrFn ==
    <<"#", NL, "f", "b", "{", "t", "}", NL>>

\* unbalanced braces
BadFn ==
    <<"f", "a", "{", "{">>

\* one statement
BodyPlain ==
    <<"t">>

\* indented lines around a blank line
BodyIndented ==
    <<SP, SP, "t", NL, NL, SP, SP, SP, "s", NL>>

\* an unclosed block
BodyBad ==
    <<"{">>

Symbols == {"a", "b", "c", "z", "A"}

ReplaceContents == {NewFn, NewAttrFn, BadFn, <<>>}

BodyContents == {BodyPlain, BodyIndented, BodyBad, <<>>}

MaxEdits == 3

Descriptors ==
    {BatchEdit("a", "delete", None),
     BatchEdit("b", "delete", None),
     BatchEdit("z", "delete", None),
     BatchEdit("b", "replace", Some(NewFn)),
     BatchEdit("b", "replace", Some(BadFn)),
     BatchEdit("a", "replace", None),
     BatchEdit("a", "replace-body", Some(BodyPlain)),
     BatchEdit("c", "replace-body", Some(BodyIndented))}

\* Descriptors without content and with content that is the empty string.
ContentDescriptors ==
    {BatchEdit("b", "delete", None),
     BatchEdit("z", "delete", None),
     BatchEdit("c", "replace-body", None),
     BatchEdit("a", "replace", Some(<<>>)),
     BatchEdit("c", "replace-body", Some(<<>>))}

\* The sources batch is called on.
BatchSources == {SrcAttrs, SrcImpl, SrcSameName, SrcInline, SrcOwnLine, SrcBroken}

EditLists ==
    UNION {[1..n -> Descriptors] \cup [1..n -> ContentDescriptors] : n \in 0..MaxEdits}

(***************************************************************************)
(* The editor as a library: one call on one source.                        *)
(***************************************************************************)
NoCall == [op |-> "none", symbol |-> "", content |-> <<>>, edits |-> <<>>]

NoRes == [ok |-> FALSE, text |-> <<>>, err |-> "", sym |-> ""]

NoBatch == [some |-> FALSE, edits |-> <<>>]

BatchFile(edits) == [some |-> TRUE, edits |-> edits]

NoArgs == [symbol |-> "", replace |-> None, replace_body |-> None, stdin |-> None,
           delete |-> FALSE, batch |-> NoBatch, dry_run |-> FALSE, json |-> FALSE]

NoFile == [exists |-> FALSE, text |-> <<>>]

Idle == <<pc, file, writes, out, args, edit_results>>

Init ==
    /\ source \in Sources
    /\ call = NoCall
    /\ res = NoRes
    /\ pc = "lib"
    /\ file = NoFile
    /\ writes = 0
    /\ out = <<>>
    /\ args = NoArgs
    /\ edit_results = <<>>

Replace ==
    \E s \in Symbols, c \in ReplaceContents :
        /\ call = NoCall
        /\ call' = [op |-> "replace", symbol |-> s, content |-> c, edits |-> <<>>]
        /\ res' = replace(source, s, c)
        /\ UNCHANGED <<source, Idle>>

Delete ==
    \E s \in Symbols :
        /\ call = NoCall
        /\ call' = [op |-> "delete", symbol |-> s, content |-> <<>>, edits |-> <<>>]
        /\ res' = delete(source, s)
        /\ UNCHANGED <<source, Idle>>

ReplaceBody ==
    \E s \in Symbols, c \in BodyContents :
        /\ call = NoCall
        /\ call' = [op |-> "replace_body", symbol |-> s, content |-> c, edits |-> <<>>]
        /\ res' = replace_body(source, s, c)
        /\ UNCHANGED <<source, Idle>>

SymbolLineRange ==
    \E s \in Symbols :
        /\ call = NoCall
        /\ call' = [op |-> "symbol_line_range", symbol |-> s, content |-> <<>>, edits |-> <<>>]
        /\ res' = symbol_line_range(source, s)
        /\ UNCHANGED <<source, Idle>>

Batch ==
    \E es \in EditLists :
        /\ call = NoCall
        /\ source \in BatchSources
        /\ call' = [op |-> "batch", symbol |-> "", content |-> <<>>, edits |-> es]
        /\ res' = batch(source, es)
        /\ UNCHANGED <<source, Idle>>

Next == Replace \/ Delete \/ ReplaceBody \/ SymbolLineRange \/ Batch

Spec == Init /\ [][Next]_vars

(***************************************************************************)
(* reindent_body as a function of its two arguments.                       *)
(***************************************************************************)
MaxBody == 5

\* The characters of a body: a space, a newline, a carriage return, a
\* statement, a no-break space.
BodyChars == {<<SP>>, <<NL>>, <<CR>>, <<"s">>, NBSP}

RECURSIVE Flatten(_)
Flatten(chars) ==
    IF chars = <<>> THEN <<>> ELSE Head(chars) \o Flatten(Tail(chars))

\* Every sequence of at most MaxBody characters.
BodyTexts == UNION {[1..n -> BodyChars] : n \in 0..MaxBody}

BaseIndents == {<<>>, <<SP, SP>>, <<"\t">>}

\* The arguments are drawn at the start; the call applies the function to them.
InitReindent ==
    /\ source = <<>>
    /\ call \in {[op |-> "none", body |-> Flatten(chars), base_indent |-> base_indent] :
                    chars \in BodyTexts, base_indent \in BaseIndents}
    /\ res = NoRes
    /\ pc = "lib"
    /\ file = NoFile
    /\ writes = 0
    /\ out = <<>>
    /\ args = NoArgs
    /\ edit_results = <<>>

ReindentBody ==
    /\ call.op = "none"
    /\ call' = [call EXCEPT !.op = "reindent_body"]
    /\ res' = IF reindent_panics(call.body) THEN Err(Panicked, "")
              ELSE Ok(reindent_body(call.body, call.base_indent))
    /\ UNCHANGED <<source, Idle>>

NextReindent == ReindentBody

SpecReindent == InitReindent /\ [][NextReindent]_vars

(***************************************************************************)
(* main: handle_edit, one run of the edit command on one file.             *)
(* pc is the position in the handler: start (before the file is read),     *)
(* meta (before the line ranges are computed), edit (before the editor     *)
(* call), output (before the write or the dry-run print), report (before   *)
(* the JSON records are printed), done, failed (returned an error).        *)
(***************************************************************************)
PathNotFound == "Path not found"
ReadError == "Failed to read"
MustSpecify == "Must specify --replace, --replace-body, --delete, or --batch"

EditResult(symbol, action, line_start, line_end) ==
    [symbol |-> symbol, action |-> action, line_start |-> line_start, line_end |-> line_end]

\* The branch handle_edit takes: --batch, then --delete, --replace-body, --replace.
mode_of(a) ==
    IF a.batch.some THEN "batch"
    ELSE IF a.delete THEN "delete"
    ELSE IF a.replace_body.some THEN "replace_body"
    ELSE IF a.replace.some THEN "replace"
    ELSE "none"

reported_action(action) ==
    CASE action = "replace" -> "replaced"
      [] action = "replace-body" -> "replaced_body"
      [] action = "replace_body" -> "replaced_body"
      [] action = "delete" -> "deleted"

\* The content the editor gets: standard input when --stdin is given.
content_of(a, option) == IF a.stdin.some THEN a.stdin.text ELSE option.text

\* The loop that fills edit_results for a batch: stops at the first symbol
\* whose line range cannot be computed.
RECURSIVE batch_metadata(_, _, _)
batch_metadata(src, edits, acc) ==
    IF edits = <<>> THEN [ok |-> TRUE, results |-> acc, err |-> "", sym |-> ""]
    ELSE With(symbol_line_range(src, Head(edits).symbol),
              LAMBDA r :
                 IF ~r.ok THEN [ok |-> FALSE, results |-> <<>>, err |-> r.err, sym |-> r.sym]
                 ELSE batch_metadata(src, Tail(edits),
                          Append(acc, EditResult(Head(edits).symbol,
                                                 reported_action(Head(edits).action),
                                                 r.line_start, r.line_end))))

metadata(src, a) ==
    IF ~a.json THEN [ok |-> TRUE, results |-> <<>>, err |-> "", sym |-> ""]
    ELSE IF mode_of(a) = "batch" THEN batch_metadata(src, a.batch.edits, <<>>)
    ELSE batch_metadata(src, <<[symbol |-> a.symbol, action |-> mode_of(a)]>>, <<>>)

run_editor(src, a) ==
    CASE mode_of(a) = "batch" -> batch(src, a.batch.edits)
      [] mode_of(a) = "delete" -> delete(src, a.symbol)
      [] mode_of(a) = "replace_body" -> replace_body(src, a.symbol, content_of(a, a.replace_body))
      [] mode_of(a) = "replace" -> replace(src, a.symbol, content_of(a, a.replace))

\* Variant: the file is written in dry-run mode too.
written_always(disk, result, dry_run) == [exists |-> TRUE, text |-> result]

\* What the disk holds after the output step.
written(disk, result, dry_run) ==
    IF dry_run THEN disk ELSE [exists |-> TRUE, text |-> result]

\* What standard output holds after the output step.
printed(stdout, result, dry_run) ==
    IF dry_run THEN Append(stdout, [kind |-> "text", text |-> result, records |-> <<>>])
    ELSE stdout

\* Variant: the records are always printed as an array.
json_report_array(stdout, results, json) ==
    IF ~json THEN stdout
    ELSE Append(stdout, [kind |-> "array", text |-> <<>>, records |-> results])

json_report(stdout, results, json) ==
    IF ~json THEN stdout
    ELSE IF Len(results) = 1
    THEN Append(stdout, [kind |-> "object", text |-> <<>>, records |-> results])
    ELSE Append(stdout, [kind |-> "array", text |-> <<>>, records |-> results])

CliSymbols == {"a", "z"}

CliEditLists ==
    {<<BatchEdit("a", "delete", None), BatchEdit("c", "replace-body", Some(BodyIndented))>>,
     <<BatchEdit("b", "replace", Some(BadFn))>>,
     <<BatchEdit("b", "replace-body", Some(BodyPlain)), BatchEdit("z", "delete", None)>>,
     <<BatchEdit("a", "replace", None)>>,
     <<BatchEdit("c", "delete", None)>>,
     <<>>}

CliArgs ==
    [symbol : CliSymbols,
     replace : {None, Some(NewFn), Some(BadFn)},
     replace_body : {None, Some(BodyPlain)},
     stdin : {None, Some(NewAttrFn)},
     delete : BOOLEAN,
     batch : {NoBatch} \cup {BatchFile(es) : es \in CliEditLists},
     dry_run : BOOLEAN,
     json : BOOLEAN]

InitEdit ==
    /\ file \in {NoFile} \cup {[exists |-> TRUE, text |-> s] : s \in Sources}
    /\ args \in CliArgs
    /\ pc = "start"
    /\ source = <<>>
    /\ call = NoCall
    /\ res = NoRes
    /\ writes = 0
    /\ out = <<>>
    /\ edit_results = <<>>

HandleRead ==
    /\ pc = "start"
    /\ IF ~file.exists
       THEN /\ pc' = "failed"
            /\ res' = Err(PathNotFound, "")
            /\ UNCHANGED source
       ELSE /\ pc' = "meta"
            /\ source' = file.text
            /\ UNCHANGED res
    /\ UNCHANGED <<call, file, writes, out, args, edit_results>>

HandleMeta ==
    /\ pc = "meta"
    /\ IF mode_of(args) = "none"
       THEN /\ pc' = "failed"
            /\ res' = Err(MustSpecify, "")
            /\ UNCHANGED edit_results
       ELSE With(metadata(source, args),
                 LAMBDA m :
                    IF m.ok
                    THEN /\ pc' = "edit"
                         /\ edit_results' = m.results
                         /\ UNCHANGED res
                    ELSE /\ pc' = "failed"
                         /\ res' = Err(m.err, m.sym)
                         /\ UNCHANGED edit_results)
    /\ UNCHANGED <<source, call, file, writes, out, args>>

HandleEdit ==
    /\ pc = "edit"
    /\ res' = run_editor(source, args)
    /\ call' = [op |-> mode_of(args), symbol |-> args.symbol,
                content |-> IF mode_of(args) = "replace" THEN content_of(args, args.replace)
                            ELSE IF mode_of(args) = "replace_body"
                            THEN content_of(args, args.replace_body)
                            ELSE <<>>,
                edits |-> args.batch.edits]
    /\ pc' = IF res'.ok THEN "output" ELSE "failed"
    /\ UNCHANGED <<source, file, writes, out, args, edit_results>>

HandleOutput ==
    /\ pc = "output"
    /\ file' = written(file, res.text, args.dry_run)
    /\ writes' = IF args.dry_run THEN writes ELSE writes + 1
    /\ out' = printed(out, res.text, args.dry_run)
    /\ pc' = "report"
    /\ UNCHANGED <<source, call, res, args, edit_results>>

HandleReport ==
    /\ pc = "report"
    /\ out' = json_report(out, edit_results, args.json)
    /\ pc' = "done"
    /\ UNCHANGED <<source, call, res, file, writes, args, edit_results>>

NextEdit == HandleRead \/ HandleMeta \/ HandleEdit \/ HandleOutput \/ HandleReport

SpecEdit == InitEdit /\ [][NextEdit]_vars

(***************************************************************************)
(* lib: process_path, one run of the view command on one file.  The file   *)
(* and the options are drawn at the start; the run reads the file and      *)
(* leaves the items that go to the formatter in res.                       *)
(***************************************************************************)
\* three functions: brace right after the name, after one space, after two
SrcSpaces ==
    <<"f", "a", "{", "s", "}", NL, "f", "b", SP, "{", "s", "}", NL, "f", "c", SP, SP, "{", NL, SP, "t", NL, "}", NL>>

\* three functions: brace after a tab, on the next line, on the next line after a space
SrcBreaks ==
    <<"f", "a", "\t", "{", "s", "}", NL, "f", "b", NL, "{", "s", "}", NL, "#", NL, "f", "c", SP, NL, "{", "t", "}", NL>>

\* impl a with the methods b and c, the second with a nested block; fn z
SrcMethods ==
    <<"I", "a", SP, "{", NL, SP, "f", "b", SP, "{", SP, "s", SP, "}", NL, SP, "/", NL, SP, "f", "c", "{", "{", "t", "}", "s", "}", NL, "}", NL, "f", "z", "{", "t", "}", NL>>

\* trait a with the attributed method b and the method c
SrcTrait ==
    <<"T", "a", SP, "{", NL, SP, "#", NL, SP, "f", "b", "{", "s", "}", NL, SP, "f", "c", SP, "{", "t", "}", NL, "}", NL>>

\* class a with a field and the methods b, c and z
TsClass ==
    <<"K", "a", SP, "{", NL, SP, "p", NL, SP, "m", "b", SP, "{", SP, "s", SP, "}", NL, SP, "/", NL, SP, "m", "c", "{", "{", "t", "}", "s", "}", NL, SP, "m", "z", "{", "}", NL, "}", NL>>

\* class b on one line, then class a with two methods of the same name
TsTwoClasses ==
    <<"K", "b", "{", "m", "a", "{", "s", "}", "}", NL, "K", "a", "{", NL, "m", "b", "{", "s", "}", NL, "m", "b", "{", "t", "}", NL, "m", "c", "{", "t", "}", NL, "}", NL>>

\* impl a: the body of method b closes on the line on which method c opens;
\* the body of method z opens on a line of its own; a comment ends the block
SrcShared ==
    <<"I", "a", "{", NL, "f", "b", "{", NL, "s", NL, "}", SP, "f", "c", "{", NL, "t", NL, "}", NL, "#", NL, "f", "z", NL, "{", NL, "s", NL, "}", SP, "/", NL, "}", NL>>

RustFiles ==
    {SrcTwoFns, SrcAttrs, SrcComment, SrcImpl, SrcSameName, SrcInline, SrcOwnLine, SrcBroken,
     SrcConst, SrcSpaces, SrcBreaks, SrcMethods, SrcTrait, SrcShared}

TsFiles == {TsClass, TsTwoClasses}

ViewFiles ==
    {[exists |-> TRUE, text |-> text, language |-> "Rust"] : text \in RustFiles}
        \cup {[exists |-> TRUE, text |-> text, language |-> "TypeScript"] : text \in TsFiles}
        \cup {[exists |-> FALSE, text |-> <<>>, language |-> "Rust"]}

ViewSymbols == {"a", "b", "c", "z"}

MaxSymbols == 3

\* The symbols of the command line and the --signatures flag.
ViewOptions ==
    {[symbols |-> symbols, signatures |-> signatures] :
        symbols \in UNION {[1..n -> ViewSymbols] : n \in 0..MaxSymbols},
        signatures \in BOOLEAN}

NoItems == [ok |-> FALSE, items |-> <<>>, err |-> ""]

\* The interface view of a TypeScript file is not drawn.
InitView ==
    /\ source = <<>>
    /\ call = NoCall
    /\ file \in ViewFiles
    /\ args \in ViewOptions
    /\ file.language = "TypeScript" => args.symbols # <<>>
    /\ res = NoItems
    /\ pc = "view"
    /\ writes = 0
    /\ out = <<>>
    /\ edit_results = <<>>

ProcessPath ==
    /\ pc = "view"
    /\ pc' = "done"
    /\ source' = file.text
    /\ res' = IF ~file.exists THEN [ok |-> FALSE, items |-> <<>>, err |-> PathNotFound]
              ELSE [ok |-> TRUE, items |-> process_path(file.text, file.language, args),
                    err |-> ""]
    /\ UNCHANGED <<call, file, writes, out, args, edit_results>>

NextView == ProcessPath

SpecView == InitView /\ [][NextView]_vars

(***************************************************************************)
(* lib: process_path on a directory. file is the directory, its files in   *)
(* walk order; pc is the position in the handler: walk (before the         *)
(* directory is walked), loop (before the next file is processed), format  *)
(* (after the loop), done. call holds the loop's locals, res the results   *)
(* pushed so far, out the warnings written to the standard error.          *)
(***************************************************************************)
MaxFiles == 3

MaxDirSymbols == 2

\* fn z alone
SrcOnlyZ ==
    <<"f", "z", "{", "t", "}", NL>>

\* A file that cannot be read as text has no text here.
DirFiles ==
    {[readable |-> TRUE, text |-> text, language |-> "Rust"] :
        text \in {SrcAttrs, SrcMethods, SrcOnlyZ}}
        \cup {[readable |-> FALSE, text |-> <<>>, language |-> "Rust"]}

Directories ==
    {[is_dir |-> TRUE, files |-> files] :
        files \in UNION {[1..n -> DirFiles] : n \in 0..MaxFiles}}

DirSymbols == {"a", "c", "z"}

DirOptions ==
    {[symbols |-> symbols, signatures |-> signatures] :
        symbols \in UNION {[1..n -> DirSymbols] : n \in 0..MaxDirSymbols},
        signatures \in BOOLEAN}

\* let (symbols, expand_methods) = ...
split_symbols(options) ==
    IF options.signatures /\ Len(options.symbols) > 1
    THEN [symbols |-> <<options.symbols[1]>>, expand_methods |-> Tail(options.symbols)]
    ELSE [symbols |-> options.symbols, expand_methods |-> <<>>]

\* process_file on one file of the walk: its items, or the read error.
process_walked(f, options) ==
    IF ~f.readable THEN [ok |-> FALSE, items |-> <<>>, err |-> ReadError]
    ELSE [ok |-> TRUE,
          items |-> process_file(f.text, f.language, split_symbols(options).symbols,
                                 options.symbols # <<>>, options.signatures,
                                 split_symbols(options).expand_methods),
          err |-> ""]

\* Variant: only the name of the first item is removed.
retain_unfound_first(remaining_symbols, items) ==
    IF items = <<>> THEN remaining_symbols
    ELSE SelectSeq(remaining_symbols, LAMBDA sym : Some(<<sym>>) # items[1].name)

\* for item in &items { remaining_symbols.retain(|s| *s != name) }
retain_unfound(remaining_symbols, items) ==
    SelectSeq(remaining_symbols,
              LAMBDA sym : \A k \in 1..Len(items) : Some(<<sym>>) # items[k].name)

\* Variant: the loop never leaves early.
early_exit_never(expand_mode, remaining_symbols) == FALSE

\* if expand_mode && remaining_symbols.is_empty() { break; }
early_exit(expand_mode, remaining_symbols) ==
    expand_mode /\ remaining_symbols = <<>>

Warning(n) == [kind |-> "warning", path |-> n]

NoLoop == [op |-> "process_path", next |-> 0, remaining_symbols |-> <<>>]

InitDir ==
    /\ source = <<>>
    /\ call = NoLoop
    /\ file \in Directories
    /\ args \in DirOptions
    /\ res = [ok |-> FALSE, results |-> <<>>, err |-> ""]
    /\ pc = "walk"
    /\ writes = 0
    /\ out = <<>>
    /\ edit_results = <<>>

\* walk_directory and the set-up of the loop.
WalkDirectory ==
    /\ pc = "walk"
    /\ call' = [op |-> "process_path", next |-> 1,
                remaining_symbols |-> IF args.symbols # <<>> THEN args.symbols ELSE <<>>]
    /\ pc' = IF file.files = <<>> THEN "format" ELSE "loop"
    /\ UNCHANGED <<source, res, file, writes, out, args, edit_results>>

\* One turn of the loop on a file that process_file handles.
ProcessFileOk ==
    /\ pc = "loop"
    /\ process_walked(file.files[call.next], args).ok
    /\ LET items == process_walked(file.files[call.next], args).items
           expand_mode == args.symbols # <<>>
           remaining == IF expand_mode /\ items # <<>>
                        THEN retain_unfound(call.remaining_symbols, items)
                        ELSE call.remaining_symbols
       IN  /\ res' = [res EXCEPT !.results = Append(@, [path |-> call.next, items |-> items])]
           /\ call' = [call EXCEPT !.next = @ + 1, !.remaining_symbols = remaining]
           /\ pc' = IF early_exit(expand_mode, remaining) \/ call.next = Len(file.files)
                    THEN "format" ELSE "loop"
    /\ source' = file.files[call.next].text
    /\ UNCHANGED <<file, writes, out, args, edit_results>>

\* One turn of the loop on a file that process_file fails on.
ProcessFileErr ==
    /\ pc = "loop"
    /\ ~process_walked(file.files[call.next], args).ok
    /\ out' = Append(out, Warning(call.next))
    /\ call' = [call EXCEPT !.next = @ + 1]
    /\ pc' = IF call.next = Len(file.files) THEN "format" ELSE "loop"
    /\ UNCHANGED <<source, res, file, writes, args, edit_results>>

\* The filters and the return of the results.
FilterResults ==
    /\ pc = "format"
    /\ res' = [ok |-> TRUE,
               results |-> [k \in 1..Len(res.results) |->
                               [path |-> res.results[k].path,
                                items |-> filtered(res.results[k].items)]],
               err |-> ""]
    /\ pc' = "done"
    /\ UNCHANGED <<source, call, file, writes, out, args, edit_results>>

NextDir == WalkDirectory \/ ProcessFileOk \/ ProcessFileErr \/ FilterResults

SpecDir == InitDir /\ [][NextDir]_vars

(***************************************************************************)
(* Properties of the editor (specification Spec)                           *)
(***************************************************************************)
EditOps == {"replace", "delete", "replace_body", "batch"}

Tree == parse(source)

\* The text the call built before validating it.
Built ==
    CASE call.op = "replace" -> replace_spliced(source, call.symbol, call.content)
      [] call.op = "delete" -> delete_spliced(source, call.symbol)
      [] call.op = "replace_body" -> replace_body_spliced(source, call.symbol, call.content)
      [] call.op = "batch" -> batch_spliced(source, call.edits)

\* Bytes [from, to) of text a equal bytes [from + shift, to + shift) of text b.
SameBytes(a, b, from, to, shift) ==
    \A i \in from..(to - 1) : a[i + 1] = b[i + shift + 1]

\* C1: every Ok result of replace, delete, replace_body and batch re-parses
\* without an error node, and a built text that holds an error node is
\* answered by the "invalid syntax" error, without text.
C1_OnlyValidTextReturned ==
    call.op \in EditOps =>
        /\ res.ok => ~parse(res.text).err
        /\ (Built.ok /\ parse(Built.text).err) => res = Err(InvalidSyntax, "")

C1_Witness ==
    /\ call.op = "replace"
    /\ Built.ok
    /\ parse(Built.text).err
    /\ res.err = InvalidSyntax

\* C3: a successful replace yields source[0..start) + new_text + source[end..):
\* the bytes before start keep their position, the bytes from end on are
\* shifted by len(new_text) - (end - start).
C3_ReplaceFrame ==
    (call.op = "replace" /\ res.ok) =>
        LET r == find_symbol_range(source, Tree, call.symbol)
            shift == Len(call.content) - (r.end - r.start)
        IN  /\ r.ok
            /\ Len(res.text) = Len(source) + shift
            /\ SameBytes(source, res.text, 0, r.start, 0)
            /\ SameBytes(call.content, res.text, 0, Len(call.content), r.start)
            /\ SameBytes(source, res.text, r.end, Len(source), shift)

C3_Witness ==
    /\ call.op = "replace"
    /\ res.ok
    /\ LET r == find_symbol_range(source, Tree, call.symbol)
       IN  /\ r.start > 0
           /\ r.end < Len(source)
           /\ Len(call.content) # r.end - r.start

\* The descriptors of a batch call, each resolved on the original source.
Resolved ==
    LET tree == parse(source)
    IN  [k \in 1..Len(call.edits) |-> resolve(source, tree, call.edits[k])]

AllResolve ==
    LET rs == Resolved IN \A k \in 1..Len(call.edits) : rs[k].ok

\* Two half-open ranges share a byte.
Intersect(x, y) == x.start < y.end /\ y.start < x.end

SomePairIntersects ==
    LET rs == Resolved
    IN  \E i, j \in 1..Len(call.edits) : i < j /\ Intersect(rs[i], rs[j])

Perms(n) == {p \in [1..n -> 1..n] : \A i, j \in 1..n : i # j => p[i] # p[j]}

Permuted(es, p) == [k \in 1..Len(es) |-> es[p[k]]]

\* C4: when the resolved ranges of a batch are pairwise non-overlapping, every
\* permutation of the descriptor list gives the same result.
C4_BatchOrderIndependent ==
    (call.op = "batch" /\ AllResolve /\ ~SomePairIntersects) =>
        \A p \in Perms(Len(call.edits)) : batch(source, Permuted(call.edits, p)) = res

C4_Witness ==
    /\ call.op = "batch"
    /\ Len(call.edits) = 3
    /\ AllResolve
    /\ ~SomePairIntersects
    /\ res.ok
    /\ Resolved[1].start < Resolved[2].start
    /\ Resolved[3].start < Resolved[2].start

\* C5: when every descriptor resolves, batch answers "Overlapping edit ranges"
\* exactly when some pair of resolved ranges intersects, whichever pair it is;
\* ranges that only touch do not intersect.
C5_OverlapIffSomePairIntersects ==
    (call.op = "batch" /\ AllResolve) =>
        (res = Err(Overlapping, "") <=> SomePairIntersects)

\* A container range with two member ranges inside it: the container and the
\* later member are not neighbours in the sorted order.
C5_Witness ==
    /\ call.op = "batch"
    /\ Len(call.edits) = 3
    /\ AllResolve
    /\ res = Err(Overlapping, "")
    /\ \E c, m, n \in 1..3 :
          /\ Resolved[c].start < Resolved[m].start
          /\ Resolved[m].end <= Resolved[n].start
          /\ Resolved[n].end < Resolved[c].end

DeletedSymbol ==
    IF call.op = "batch" THEN call.edits[1].symbol ELSE call.symbol

IsDelete ==
    \/ call.op = "delete"
    \/ call.op = "batch" /\ Len(call.edits) = 1 /\ call.edits[1].action = "delete"

\* C7: delete removes [effective_start, node_end) and one more byte exactly when
\* the byte at node_end is a newline; nothing else changes.
C7_DeleteOneTrailingNewline ==
    (IsDelete /\ res.ok) =>
        LET r == find_symbol_range(source, Tree, DeletedSymbol)
            extra == IF r.end < Len(source) /\ source[r.end + 1] = NL THEN 1 ELSE 0
            removed == (r.end - r.start) + extra
        IN  /\ r.ok
            /\ Len(res.text) = Len(source) - removed
            /\ SameBytes(source, res.text, 0, r.start, 0)
            /\ SameBytes(source, res.text, r.end + extra, Len(source), 0 - removed)

\* The deleted node is followed by two newlines: the second one stays.
C7_Witness ==
    /\ IsDelete
    /\ res.ok
    /\ LET r == find_symbol_range(source, Tree, DeletedSymbol)
       IN  /\ r.end + 1 < Len(source)
           /\ source[r.end + 1] = NL
           /\ source[r.end + 2] = NL
           /\ res.text[r.start + 1] = NL

\* The attribute siblings in the run that immediately precedes node i.
AttrRun(tree, i) ==
    {j \in 1..(i - 1) :
        /\ tree.nodes[j].parent = tree.nodes[i].parent
        /\ \A k \in j..(i - 1) :
              tree.nodes[k].parent = tree.nodes[i].parent
                  => tree.nodes[k].kind = "attribute_item"}

\* C8: for a symbol preceded by a run of N >= 0 attributes, the range replace
\* replaces and delete removes starts at the first of the N attributes; with
\* N = 0 it starts at the symbol's own start byte.
C8_AttributesGoWithSymbol ==
    (call.op \in {"replace", "delete"} /\ res.ok) =>
        LET item == find_symbol_node(source, Tree, call.symbol)
            run == AttrRun(Tree, item)
            start == IF run = {} THEN Tree.nodes[item].start
                     ELSE Tree.nodes[Min(run)].start
            end == IF call.op = "delete"
                   THEN effective_end(source, Tree.nodes[item].end)
                   ELSE Tree.nodes[item].end
        IN  /\ item # 0
            /\ res.text = Slice(source, 0, start) \o call.content \o Tail0(source, end)

\* A symbol with two attributes is replaced or deleted.
C8_Witness ==
    /\ call.op \in {"replace", "delete"}
    /\ res.ok
    /\ Cardinality(AttrRun(Tree, find_symbol_node(source, Tree, call.symbol))) = 2

\* No candidate node of the source carries the name.
NoCandidate(symbol_name) ==
    LET tree == parse(source)
    IN  \A i \in query_matches(tree) : resolved_name(source, tree, i) # <<symbol_name>>

SingleOps == {"replace", "delete", "replace_body", "symbol_line_range"}

\* C9 as stated: every operation, batch included, answers "Symbol not found"
\* with the requested name whenever no candidate node has that name.
C9_AlwaysSymbolNotFound ==
    /\ (call.op \in SingleOps /\ NoCandidate(call.symbol)) =>
           (~res.ok /\ res.err = NotFound /\ res.sym = call.symbol)
    /\ call.op = "batch" =>
           \A k \in 1..Len(call.edits) :
               NoCandidate(call.edits[k].symbol) =>
                   (~res.ok /\ res.err = NotFound /\ res.sym = call.edits[k].symbol)

\* C9: replace, delete, replace_body and symbol_line_range answer "Symbol not
\* found" with the requested name whenever no candidate node has that name; a
\* batch with such a descriptor fails, and its error is "Symbol not found" with
\* that name when every earlier descriptor resolves and the descriptor is a
\* Delete or carries content.
C9_SymbolNotFound ==
    /\ (call.op \in SingleOps /\ NoCandidate(call.symbol)) =>
           (~res.ok /\ res.err = NotFound /\ res.sym = call.symbol)
    /\ call.op = "batch" =>
           LET rs == Resolved IN
           \A k \in 1..Len(call.edits) :
               NoCandidate(call.edits[k].symbol) =>
                   /\ ~res.ok
                   /\ ((\A j \in 1..(k - 1) : rs[j].ok)
                           /\ (call.edits[k].action = "delete" \/ call.edits[k].content.some))
                       => res = Err(NotFound, call.edits[k].symbol)

\* The second descriptor of a batch names an unknown symbol; the first resolves.
C9_Witness ==
    /\ call.op = "batch"
    /\ Len(call.edits) >= 2
    /\ Resolved[1].ok
    /\ NoCandidate(call.edits[2].symbol)
    /\ res = Err(NotFound, call.edits[2].symbol)

ResolutionErrors == {NotFound, NoBody, MissingContent}

\* C10: when a descriptor of a batch does not resolve, the batch fails with
\* that resolution error and returns no text, whatever the other descriptors.
C10_BatchFailsWhole ==
    (call.op = "batch" /\ ~AllResolve) =>
        /\ ~res.ok
        /\ res.text = <<>>
        /\ res.err \in ResolutionErrors

\* The failing descriptor stands between two that resolve.
C10_Witness ==
    /\ call.op = "batch"
    /\ Len(call.edits) = 3
    /\ Resolved[1].ok
    /\ ~Resolved[2].ok
    /\ Resolved[3].ok
    /\ ~res.ok

\* The named items whose name, or impl type, is the requested one byte for byte.
Named(symbol_name) ==
    LET nodes == Tree.nodes
    IN  {i \in 1..Len(nodes) :
            /\ nodes[i].kind \in ItemKinds
            /\ \E n \in 1..Len(nodes) :
                  /\ nodes[n].parent = i
                  /\ nodes[n].kind \in {"identifier", "type_identifier"}
                  /\ Slice(source, nodes[n].start, nodes[n].end) = <<symbol_name>>}

\* The first of them in traversal order, with its attributes: what the
\* operations act on.
FirstNamed(symbol_name) ==
    LET first == Min(Named(symbol_name))
        run == AttrRun(Tree, first)
    IN  [node |-> first,
         start |-> IF run = {} THEN Tree.nodes[first].start ELSE Tree.nodes[Min(run)].start,
         end |-> Tree.nodes[first].end]

Lower(name) == IF name = "A" THEN "a" ELSE name

\* C13: an operation succeeds only on a node whose resolved name is the
\* requested name byte for byte, and of several such nodes it acts on the first
\* in traversal order: replace and delete splice that node's range,
\* symbol_line_range answers its lines, replace_body changes bytes inside it only.
C13_FirstExactMatch ==
    (call.op \in SingleOps /\ res.ok) =>
        /\ Named(call.symbol) # {}
        /\ LET f == FirstNamed(call.symbol) IN
           CASE call.op = "replace" ->
                    res.text = Slice(source, 0, f.start) \o call.content \o Tail0(source, f.end)
             [] call.op = "delete" ->
                    res.text = Slice(source, 0, f.start)
                                   \o Tail0(source, effective_end(source, f.end))
             [] call.op = "symbol_line_range" ->
                    /\ res.line_start = LineOf(source, f.start)
                    /\ res.line_end = LineOf(source, f.end)
             [] call.op = "replace_body" ->
                    /\ SameBytes(source, res.text, 0, Tree.nodes[f.node].start, 0)
                    /\ SameBytes(source, res.text, f.end, Len(source),
                                 Len(res.text) - Len(source))

\* Three nodes carry the name up to case, two of them exactly; the operation
\* acts on the first exact one, which is not the first node of the three.
C13_Witness ==
    /\ call.op = "replace"
    /\ res.ok
    /\ Cardinality(Named(call.symbol)) = 2
    /\ \E i \in 1..Len(Tree.nodes) :
          /\ i < Min(Named(call.symbol))
          /\ Tree.nodes[i].kind \in ItemKinds
          /\ resolved_name(source, Tree, i) # <<call.symbol>>
          /\ Lower(resolved_name(source, Tree, i)[1]) = Lower(call.symbol)

\* The block kinds of the language of the sources.
BlockKinds == {"block"}

\* The body the locator is to find for node i: the body field child when it is
\* a block, else the first direct child that is a block, else 0.
BodyOf(i) ==
    LET tree == Tree
        field == body_field(tree, i)
        blocks == {j \in 1..Len(tree.nodes) :
                      tree.nodes[j].parent = i /\ tree.nodes[j].kind \in BlockKinds}
    IN  IF field # 0 /\ tree.nodes[field].kind \in BlockKinds THEN field
        ELSE IF blocks # {} THEN Min(blocks)
        ELSE 0

IsStruct(symbol_name) ==
    LET named == Named(symbol_name)
    IN  named # {} /\ Tree.nodes[Min(named)].kind = "struct_item"

\* C14: replace_body on a symbol that exists splices the body BodyOf names and
\* answers "no body" when there is none; a struct has none, so replace_body on
\* a struct fails, alone or as a descriptor of a batch.
C14_BodyLocator ==
    /\ (call.op = "replace_body" /\ Named(call.symbol) # {}) =>
           LET body == BodyOf(Min(Named(call.symbol)))
               range == Tree.nodes[body]
           IN  /\ body = 0 => res = Err(NoBody, "")
               /\ body # 0 => res.err # NoBody
               /\ res.ok =>
                      res.text = Slice(source, 0, range.start)
                                     \o new_block(source, range.start, call.content)
                                     \o Tail0(source, range.end)
               /\ IsStruct(call.symbol) => body = 0
    /\ call.op = "batch" =>
           LET rs == Resolved IN
           \A k \in 1..Len(call.edits) :
               (call.edits[k].action = "replace-body" /\ IsStruct(call.edits[k].symbol)) =>
                   /\ ~res.ok
                   /\ ((\A j \in 1..(k - 1) : rs[j].ok) /\ call.edits[k].content.some)
                          => res = Err(NoBody, "")

\* The symbol has no body field, and the block among its children is replaced.
C14_Witness ==
    /\ call.op = "replace_body"
    /\ res.ok
    /\ Named(call.symbol) # {}
    /\ body_field(Tree, Min(Named(call.symbol))) = 0
    /\ BodyOf(Min(Named(call.symbol))) # 0

\* Descriptor k of the batch is a Replace or ReplaceBody without content.
LacksContent(k) ==
    /\ call.edits[k].action \in {"replace", "replace-body"}
    /\ ~call.edits[k].content.some

\* C11 as stated: a batch that holds a Replace or ReplaceBody descriptor without
\* content always fails with an error that names that descriptor's symbol.
C11_AlwaysNamesTheSymbol ==
    call.op = "batch" =>
        \A k \in 1..Len(call.edits) :
            LacksContent(k) => (~res.ok /\ res.text = <<>> /\ res.sym = call.edits[k].symbol)

\* C11: a batch that holds a Replace or ReplaceBody descriptor without content
\* fails and returns no text, so the descriptor is never applied as a deletion;
\* when every earlier descriptor resolves, the error is the missing-content
\* error and names that descriptor's symbol.
C11_MissingContentFails ==
    call.op = "batch" =>
        LET rs == Resolved IN
        \A k \in 1..Len(call.edits) :
            LacksContent(k) =>
                /\ ~res.ok
                /\ res.text = <<>>
                /\ (\A j \in 1..(k - 1) : rs[j].ok) =>
                       res = Err(MissingContent, call.edits[k].symbol)

\* A ReplaceBody without content follows a descriptor that resolves; its
\* symbol exists and has a body.
C11_Witness ==
    /\ call.op = "batch"
    /\ Len(call.edits) >= 2
    /\ Resolved[1].ok
    /\ call.edits[2].action = "replace-body"
    /\ LacksContent(2)
    /\ body_edit(source, Tree, call.edits[2].symbol, <<>>).ok
    /\ res = Err(MissingContent, call.edits[2].symbol)

\* Descriptor k of the batch is a Replace or ReplaceBody whose content is the
\* empty string.
EmptyContent(k) ==
    /\ call.edits[k].action \in {"replace", "replace-body"}
    /\ call.edits[k].content = Some(<<>>)

\* C12: a batch that holds a Replace or ReplaceBody descriptor whose content is
\* the empty string does not apply it: the batch fails and returns no text, as
\* it does for a descriptor without content.
C12_EmptyContentRejected ==
    call.op = "batch" =>
        \A k \in 1..Len(call.edits) :
            EmptyContent(k) => (~res.ok /\ res.text = <<>>)

\* The resolved edits of the set of indices S, by ascending start.
RECURSIVE Ascending(_, _)
Ascending(rs, S) ==
    IF S = {} THEN <<>>
    ELSE LET k == CHOOSE k \in S : \A j \in S : rs[k].start <= rs[j].start
         IN  <<rs[k]>> \o Ascending(rs, S \ {k})

\* The source from byte pos on, with every range of the ascending edits
\* replaced at once.
RECURSIVE Substituted(_, _)
Substituted(pos, ascending) ==
    IF ascending = <<>> THEN Tail0(source, pos)
    ELSE Slice(source, pos, Head(ascending).start) \o Head(ascending).replacement
             \o Substituted(Head(ascending).end, Tail(ascending))

\* C23: in batch every range is computed on the original source, and applying
\* the splices one at a time in descending start order gives the same text as
\* substituting all the ranges at once in the original source: at every step
\* the offsets of the edits not yet applied delimit, in the partly edited
\* text, the same bytes as in the original.
C23_SplicesAsSubstitution ==
    (call.op = "batch" /\ AllResolve /\ ~SomePairIntersects) =>
        LET rs == Resolved
            sorted == sort_desc(rs)
            at_once == Substituted(0, Ascending(rs, 1..Len(rs)))
        IN  /\ Built = Ok(at_once)
            /\ res.ok => res.text = at_once
            /\ \A j \in 0..Len(sorted) :
                  LET partial == apply_all(source, SubSeq(sorted, 1, j))
                  IN  \A m \in (j + 1)..Len(sorted) :
                          /\ sorted[m].end <= Len(partial)
                          /\ Slice(partial, sorted[m].start, sorted[m].end)
                                 = Slice(source, sorted[m].start, sorted[m].end)

\* Three edits that change the length of the text are applied, given in an
\* order that is not the descending one.
C23_Witness ==
    /\ call.op = "batch"
    /\ Len(call.edits) = 3
    /\ AllResolve
    /\ ~SomePairIntersects
    /\ res.ok
    /\ Resolved[1].start < Resolved[3].start
    /\ \A k \in 1..3 : Len(Resolved[k].replacement) # Resolved[k].end - Resolved[k].start
    /\ Len(res.text) # Len(source)

\* C25: batch with an empty list of edits, on a source that parses without
\* errors, succeeds and returns a text equal byte for byte to the source.
C25_EmptyBatchIsIdentity ==
    (call.op = "batch" /\ call.edits = <<>> /\ ~Tree.err) => res = Ok(source)

\* The empty batch is called on a source that holds items.
C25_Witness ==
    /\ call.op = "batch"
    /\ call.edits = <<>>
    /\ ~Tree.err
    /\ Len(Tree.nodes) > 1
    /\ res.ok
    /\ res.text = source

\* The empty batch on a source with a syntax error is refused.
C25_WitnessBroken ==
    /\ call.op = "batch"
    /\ call.edits = <<>>
    /\ Tree.err
    /\ res = Err(InvalidSyntax, "")

\* The single operation that corresponds to a descriptor with its content.
Single(edit) ==
    IF edit.action = "replace" THEN replace(source, edit.symbol, edit.content.text)
    ELSE IF edit.action = "replace-body"
    THEN replace_body(source, edit.symbol, edit.content.text)
    ELSE delete(source, edit.symbol)

\* C27: batch with exactly one descriptor returns the same outcome (the same
\* text, or an error of the same kind) as the corresponding single operation
\* on the same source: Replace as replace, ReplaceBody as replace_body,
\* Delete as delete.
C27_SingletonBatchAsSingle ==
    /\ (/\ call.op = "batch"
        /\ Len(call.edits) = 1
        /\ call.edits[1].action = "delete" \/ call.edits[1].content.some)
           => res = Single(call.edits[1])
    /\ call.op = "replace"
           => res = batch(source, <<BatchEdit(call.symbol, "replace", Some(call.content))>>)
    /\ call.op = "replace_body"
           => res = batch(source, <<BatchEdit(call.symbol, "replace-body", Some(call.content))>>)
    /\ call.op = "delete"
           => res = batch(source, <<BatchEdit(call.symbol, "delete", None)>>)

\* A batch of one Delete removes a symbol together with the newline after it.
C27_Witness ==
    /\ call.op = "batch"
    /\ Len(call.edits) = 1
    /\ call.edits[1].action = "delete"
    /\ res.ok
    /\ Named(call.edits[1].symbol) # {}
    /\ FirstNamed(call.edits[1].symbol).end < Len(source)
    /\ source[FirstNamed(call.edits[1].symbol).end + 1] = NL
    /\ Len(res.text) = Len(source) - (FirstNamed(call.edits[1].symbol).end + 1
                                          - Resolved[1].start)

\* A batch of one ReplaceBody fails as replace_body does, for want of a body.
C27_WitnessNoBody ==
    /\ call.op = "batch"
    /\ Len(call.edits) = 1
    /\ call.edits[1].action = "replace-body"
    /\ call.edits[1].content.some
    /\ res = Err(NoBody, "")

\* The descriptors of the batch that do not resolve, each taken alone.
Unresolvable ==
    LET rs == Resolved IN {k \in 1..Len(call.edits) : ~rs[k].ok}

\* C28: batch performs its checks in a fixed order. The descriptors are
\* resolved in input order and the first that fails decides the error; within
\* a descriptor missing content comes before the symbol lookup, and the lookup
\* before the search for a body. Overlap is checked only when every descriptor
\* resolved, and the syntax of the final text only when no ranges overlap: an
\* overlap is never reported when some descriptor is unresolvable, and invalid
\* syntax is never reported when ranges overlap.
C28_CheckOrder ==
    call.op = "batch" =>
        LET rs == Resolved
            bad == Unresolvable
        IN  /\ bad # {} => res = Err(rs[Min(bad)].err, rs[Min(bad)].sym)
            /\ \A k \in 1..Len(call.edits) :
                  /\ LacksContent(k) => rs[k] = Unresolved(MissingContent, call.edits[k].symbol)
                  /\ (~LacksContent(k) /\ Named(call.edits[k].symbol) = {})
                         => rs[k] = Unresolved(NotFound, call.edits[k].symbol)
                  /\ (~rs[k].ok /\ rs[k].err = NoBody)
                         => (Named(call.edits[k].symbol) # {} /\ call.edits[k].content.some)
            /\ res.err = Overlapping => (bad = {} /\ SomePairIntersects)
            /\ (bad = {} /\ SomePairIntersects) => res = Err(Overlapping, "")
            /\ res.err = InvalidSyntax
                   => (bad = {} /\ ~SomePairIntersects /\ Built.ok /\ parse(Built.text).err)
            /\ (bad = {} /\ ~SomePairIntersects)
                   => res = (IF parse(Built.text).err THEN Err(InvalidSyntax, "")
                             ELSE Ok(Built.text))

\* Two descriptors resolve to ranges that overlap and the one after them does
\* not resolve: the batch reports the failed resolution.
C28_Witness ==
    /\ call.op = "batch"
    /\ Len(call.edits) = 3
    /\ Unresolvable = {3}
    /\ Intersect(Resolved[1], Resolved[2])
    /\ res = Err(Resolved[3].err, Resolved[3].sym)
    /\ res.err # Overlapping

\* Two descriptors fail for different reasons: the batch reports the first.
C28_WitnessFirstFailure ==
    /\ call.op = "batch"
    /\ \E i, j \in Unresolvable :
          /\ i < j
          /\ Resolved[i].err # Resolved[j].err
          /\ res.err = Resolved[i].err

\* Ranges overlap and one of the replacements is not well formed: the overlap
\* is reported.
C28_WitnessOverlapFirst ==
    /\ call.op = "batch"
    /\ Unresolvable = {}
    /\ SomePairIntersects
    /\ \E k \in 1..Len(call.edits) :
          /\ call.edits[k].action = "replace"
          /\ parse(call.edits[k].content.text).err
    /\ res = Err(Overlapping, "")

\* A descriptor without content names a symbol the source does not have: the
\* missing content is reported.
C28_WitnessContentFirst ==
    /\ call.op = "batch"
    /\ Len(call.edits) >= 1
    /\ LacksContent(1)
    /\ Named(call.edits[1].symbol) = {}
    /\ res = Err(MissingContent, call.edits[1].symbol)

\* C29: for every source and name, replace and delete (find_symbol_range) and
\* replace_body (find_symbol_node) resolve the name to the same syntax node:
\* whenever find_symbol_range succeeds, find_symbol_node succeeds too, the
\* range ends where that node ends and starts at the first attribute of its
\* run, and the body range spliced by replace_body lies inside the range.
C29_SameNode ==
    \A s \in Symbols :
        LET tree == Tree
            r == find_symbol_range(source, tree, s)
            n == find_symbol_node(source, tree, s)
            e == body_edit(source, tree, s, <<>>)
        IN  r.ok =>
               /\ n # 0
               /\ n = Min(Named(s))
               /\ r.end = tree.nodes[n].end
               /\ r.start <= tree.nodes[n].start
               /\ \A j \in 1..Len(tree.nodes) :
                      (/\ tree.nodes[j].parent = tree.nodes[n].parent
                       /\ r.start <= tree.nodes[j].start
                       /\ tree.nodes[j].start < tree.nodes[n].start)
                          => tree.nodes[j].kind = "attribute_item"
               /\ e.ok => (r.start <= e.start /\ e.start < e.end /\ e.end <= r.end)
               /\ (call.op = "replace_body" /\ call.symbol = s /\ Built.ok) =>
                      /\ SameBytes(source, Built.text, 0, e.start, 0)
                      /\ SameBytes(source, Built.text, e.end, Len(source),
                                   Len(Built.text) - Len(source))

\* The body of an attributed function is replaced: the range of replace
\* starts before the node, at its first attribute.
C29_Witness ==
    /\ call.op = "replace_body"
    /\ res.ok
    /\ find_symbol_range(source, Tree, call.symbol).ok
    /\ find_symbol_range(source, Tree, call.symbol).start
           < Tree.nodes[find_symbol_node(source, Tree, call.symbol)].start
    /\ body_edit(source, Tree, call.symbol, call.content).end
           <= find_symbol_range(source, Tree, call.symbol).end

\* The body of a function that shares its name with a later item is replaced.
C29_WitnessSameName ==
    /\ call.op = "replace_body"
    /\ res.ok
    /\ Cardinality(Named(call.symbol)) >= 2
    /\ find_symbol_range(source, Tree, call.symbol).end
           = Tree.nodes[Min(Named(call.symbol))].end

(***************************************************************************)
(* Properties of the view command (specification SpecView)                 *)
(***************************************************************************)
ViewTree == parse_language(file.text, file.language)

ViewDone == pc = "done" /\ res.ok

\* The earliest node of the run of attributes before node i, or i itself.
RunStart(tree, i) == IF AttrRun(tree, i) = {} THEN i ELSE Min(AttrRun(tree, i))

\* Item it was built from node i: same kind, same name, same last line.
BuiltFrom(tree, it, i) ==
    /\ item_kind(tree.nodes[i].kind, file.language) = it.kind
    /\ it.line_end = LineOf(source, tree.nodes[i].end)
    /\ name_capture(tree, i) # 0
    /\ it.name = Some(resolved_name(source, tree, i))

\* C16: the effective start of a node is the start byte and the 1-based line of
\* the earliest node of the maximal run of attribute siblings that immediately
\* precede it, and the node's own start when no attribute precedes it; it is
\* never greater than the node's start byte.  Every item of a view starts there:
\* its first line is that line and its content begins with the text from that
\* byte up to the node's first byte.
C16_EffectiveStart ==
    ViewDone =>
        LET tree == ViewTree
        IN  \A k \in 1..Len(res.items) :
                \E i \in 1..Len(tree.nodes) :
                    LET first == tree.nodes[RunStart(tree, i)]
                        node == tree.nodes[i]
                    IN  /\ BuiltFrom(tree, res.items[k], i)
                        /\ first.start <= node.start
                        /\ AttrRun(tree, i) = {} => first.start = node.start
                        /\ res.items[k].line_start = LineOf(source, first.start)
                        /\ Len(res.items[k].content) > node.start - first.start
                        /\ SubSeq(res.items[k].content, 1, node.start - first.start + 1)
                               = Slice(source, first.start, node.start + 1)

\* An item is built from a node whose run of attributes follows a sibling that
\* is not an attribute.
C16_Witness ==
    /\ ViewDone
    /\ LET tree == ViewTree
       IN  \E k \in 1..Len(res.items), i \in 1..Len(tree.nodes) :
               /\ BuiltFrom(tree, res.items[k], i)
               /\ AttrRun(tree, i) # {}
               /\ prev_sibling(tree, RunStart(tree, i)) # 0
               /\ res.items[k].line_start = LineOf(source, tree.nodes[RunStart(tree, i)].start)

\* Node c is a member of node i: a child, or a child of a member that is a wrapper.
RECURSIVE Within(_, _, _)
Within(tree, c, i) ==
    \/ tree.nodes[c].parent = i
    \/ /\ tree.nodes[c].parent # 0
       /\ tree.nodes[tree.nodes[c].parent].kind \in WrapperKinds
       /\ Within(tree, tree.nodes[c].parent, i)

\* The function-like members of node i that have a body.
Members(tree, i) ==
    {c \in 1..Len(tree.nodes) :
        tree.nodes[c].kind \in FnKinds /\ body_field(tree, c) # 0 /\ Within(tree, c, i)}

RECURSIVE TotalLen(_, _)
TotalLen(tree, bodies) ==
    IF bodies = {} THEN 0
    ELSE LET b == CHOOSE b \in bodies : TRUE
         IN  tree.nodes[b].end - tree.nodes[b].start + TotalLen(tree, bodies \ {b})

\* The offset in the collapsed text of the source byte p, which lies outside
\* the bodies: every body that ends before p has shrunk to the placeholder.
Moved(tree, bodies, from, p) ==
    LET before == {b \in bodies : tree.nodes[b].end <= p}
    IN  p - from - TotalLen(tree, before) + Len(Placeholder) * Cardinality(before)

\* Text is the source from byte from to byte to with each of the bodies
\* replaced by the placeholder and every other byte kept in its order.
CollapsedTo(tree, text, bodies, from, to) ==
    /\ Len(text) = Moved(tree, bodies, from, to)
    /\ \A p \in from..(to - 1) :
          (\A b \in bodies : p < tree.nodes[b].start \/ tree.nodes[b].end <= p)
              => text[Moved(tree, bodies, from, p) + 1] = source[p + 1]
    /\ \A b \in bodies :
          LET at == Moved(tree, bodies, from, tree.nodes[b].start)
          IN  SubSeq(text, at + 1, at + Len(Placeholder)) = Placeholder

\* Item k of the result is a container collapsed as a block: an impl block or
\* a trait of the interface view, or the class of signatures mode without
\* methods to expand.
BlockCollapsed(k) ==
    \/ args.symbols = <<>> /\ res.items[k].kind \in {"Impl", "Trait"}
    \/ args.signatures /\ Len(args.symbols) = 1 /\ res.items[k].kind = "Class"

\* C17: block collapse of a container gives the container text from its
\* effective start to its end with the body of every function-like member,
\* found directly or through wrapper kinds, replaced by the placeholder
\* "{ ... }": the bytes outside those bodies are unchanged and in source order,
\* the members keep their order, and no byte of a collapsed body is left.
C17_BlockCollapseFrame ==
    ViewDone =>
        LET tree == ViewTree
        IN  \A k \in 1..Len(res.items) :
                BlockCollapsed(k) =>
                    \E i \in 1..Len(tree.nodes) :
                        /\ BuiltFrom(tree, res.items[k], i)
                        /\ CollapsedTo(tree, res.items[k].content,
                                       {body_field(tree, c) : c \in Members(tree, i)},
                                       tree.nodes[RunStart(tree, i)].start, tree.nodes[i].end)

\* A container with two members, one of them with a block inside its body, is
\* collapsed.
C17_Witness ==
    /\ ViewDone
    /\ LET tree == ViewTree
       IN  \E k \in 1..Len(res.items), i \in 1..Len(tree.nodes) :
               /\ BlockCollapsed(k)
               /\ BuiltFrom(tree, res.items[k], i)
               /\ Cardinality(Members(tree, i)) = 2
               /\ \E c \in Members(tree, i), j \in 1..Len(tree.nodes) :
                      /\ tree.nodes[j].parent = body_field(tree, c)
                      /\ tree.nodes[j].kind \in {"block", "statement_block"}

\* Item k of the result is a function of the interface view, collapsed by
\* collapse_body.
BodyCollapsed(k) ==
    args.symbols = <<>> /\ res.items[k].kind = "Function" /\ res.items[k].has_body

\* What separates the signature of node i from its body.
Separator(tree, i) ==
    LET before == Slice(source, tree.nodes[RunStart(tree, i)].start,
                        tree.nodes[body_field(tree, i)].start)
    IN  SubSeq(before, Len(trim_end(before)) + 1, Len(before))

\* The signature of node i: the text from its effective start up to the body,
\* without the separator.
Signature(tree, i) ==
    trim_end(Slice(source, tree.nodes[RunStart(tree, i)].start,
                   tree.nodes[body_field(tree, i)].start))

\* Item k is the signature of node i, one space and the placeholder.
OneSpace(tree, k, i) ==
    res.items[k].content = Signature(tree, i) \o <<SP>> \o Placeholder

\* C18: single-body collapse keeps the signature text and puts exactly one
\* space between the signature and the opening delimiter of the placeholder,
\* whatever separated the signature from the body in the source: nothing, one
\* space, several spaces, a tab or a newline.
C18_ExactlyOneSpace ==
    ViewDone =>
        LET tree == ViewTree
        IN  \A k \in 1..Len(res.items) :
                BodyCollapsed(k) =>
                    \E i \in 1..Len(tree.nodes) :
                        BuiltFrom(tree, res.items[k], i) /\ OneSpace(tree, k, i)

\* Single-body collapse puts exactly one space when nothing, one space or only
\* line ends separate the signature from the body.
C18_OneSpaceAfterPlainSeparator ==
    ViewDone =>
        LET tree == ViewTree
        IN  \A k \in 1..Len(res.items) :
                BodyCollapsed(k) =>
                    \E i \in 1..Len(tree.nodes) :
                        /\ BuiltFrom(tree, res.items[k], i)
                        /\ (\/ Separator(tree, i) \in {<<>>, <<SP>>}
                            \/ \A n \in 1..Len(Separator(tree, i)) :
                                  Separator(tree, i)[n] \in {NL, CR})
                               => OneSpace(tree, k, i)

Contains(text, sub) ==
    \E n \in 0..(Len(text) - Len(sub)) : SubSeq(text, n + 1, n + Len(sub)) = sub

\* The impl blocks of the source that have the type name and two methods.
ImplBlocks(tree, type_name) ==
    {i \in 1..Len(tree.nodes) :
        /\ tree.nodes[i].kind = "impl_item"
        /\ extract_impl_name(source, tree, i) = Some(<<type_name>>)
        /\ Cardinality(Members(tree, i)) = 2}

\* Item k shows the signature of each method of impl block i followed by the
\* placeholder, and no statement of a body.
ShowsSignatures(tree, k, i) ==
    /\ \A c \in Members(tree, i) :
          Contains(res.items[k].content,
                   Slice(source, tree.nodes[c].start, tree.nodes[body_field(tree, c)].start)
                       \o Placeholder)
    /\ \A n \in 1..Len(res.items[k].content) : res.items[k].content[n] \notin {"s", "t"}

\* C19: signature mode applied to an impl block with two methods returns
\* output that contains both method signatures, each followed by the
\* placeholder, and contains neither method's body statements.
C19_SignatureModeOnImpl ==
    (ViewDone /\ args.signatures /\ Len(args.symbols) = 1) =>
        LET tree == ViewTree
        IN  \A i \in ImplBlocks(tree, args.symbols[1]) :
                \E k \in 1..Len(res.items) : ShowsSignatures(tree, k, i)

\* The interface view, with or without the signatures flag, shows every impl
\* block with two methods that way.
C19_InterfaceViewOfImpl ==
    (ViewDone /\ args.symbols = <<>>) =>
        LET tree == ViewTree
        IN  \A name \in ViewSymbols :
                \A i \in ImplBlocks(tree, name) :
                    \E k \in 1..Len(res.items) :
                        res.items[k].kind = "Impl" /\ ShowsSignatures(tree, k, i)

\* Signatures mode with a set of names to keep expanded: the names after the
\* first symbol.
KeepMode == ViewDone /\ args.signatures /\ Len(args.symbols) > 1

KeepExpanded == {<<args.symbols[n]>> : n \in 2..Len(args.symbols)}

\* The members of node i that the set does not name.
NotKept(tree, i) ==
    {c \in Members(tree, i) :
        ~(name_of(source, tree, c).some /\ name_of(source, tree, c).text \in KeepExpanded)}

\* Item k is node i with the body of each member shown in full if and only if
\* its name is in the set, and replaced by the placeholder otherwise.
KeptExpanded(tree, k, i) ==
    CollapsedTo(tree, res.items[k].content, {body_field(tree, c) : c \in NotKept(tree, i)},
                tree.nodes[RunStart(tree, i)].start, tree.nodes[i].end)

SkippedLine(tree, i, ln) ==
    \E c \in Members(tree, i) :
        /\ LineOf(source, tree.nodes[body_field(tree, c)].start) < ln
        /\ ln <= LineOf(source, tree.nodes[body_field(tree, c)].end)

\* The lines of node i, attributes included, that are kept.
KeptLines(tree, i) ==
    {ln \in LineOf(source, tree.nodes[RunStart(tree, i)].start)
               ..LineOf(source, tree.nodes[i].end) : ~SkippedLine(tree, i, ln)}

\* C21: for a collapsed block the line mapping has exactly one entry per
\* rendered output line, in order; entry n carries the 1-based original line
\* number of the n-th kept source line, where the line on which a body opens
\* is kept and every line after it up to and including the line on which the
\* body closes is skipped; so the mapped line numbers are strictly increasing,
\* start at the item's first line and never name a skipped line.
C21_LineMapping ==
    ViewDone =>
        LET tree == ViewTree
        IN  \A k \in 1..Len(res.items) :
                BlockCollapsed(k) =>
                    \E i \in 1..Len(tree.nodes) :
                        LET entries == res.items[k].line_mappings.entries
                            rendered == lines(res.items[k].content)
                            kept == KeptLines(tree, i)
                        IN  /\ BuiltFrom(tree, res.items[k], i)
                            /\ res.items[k].line_mappings.some
                            /\ Len(entries) = Len(rendered)
                            /\ \A n \in 1..Len(entries) :
                                  /\ entries[n].text = rendered[n]
                                  /\ entries[n].line \in kept
                                  /\ Cardinality({ln \in kept : ln < entries[n].line}) = n - 1
                                  /\ n > 1 => entries[n - 1].line < entries[n].line
                            /\ entries # <<>> /\ entries[1].line = res.items[k].line_start

\* A block is collapsed in which one body closes on the line on which the next
\* opens, and lines are skipped.
C21_Witness ==
    /\ ViewDone
    /\ LET tree == ViewTree
       IN  \E k \in 1..Len(res.items), i \in 1..Len(tree.nodes) :
               /\ BlockCollapsed(k)
               /\ BuiltFrom(tree, res.items[k], i)
               /\ \E c, d \in Members(tree, i) :
                      /\ c # d
                      /\ LineOf(source, tree.nodes[body_field(tree, c)].end)
                             = LineOf(source, tree.nodes[body_field(tree, d)].start)
                      /\ LineOf(source, tree.nodes[body_field(tree, c)].start)
                             < LineOf(source, tree.nodes[body_field(tree, c)].end)
               /\ Len(res.items[k].line_mappings.entries)
                      < res.items[k].line_end - res.items[k].line_start + 1

(***************************************************************************)
(* Properties of reindent_body (specification SpecReindent)                *)
(***************************************************************************)
\* The least number of leading whitespace bytes over the non-blank lines.
LeastIndent(ls) ==
    LET nonblank == {k \in 1..Len(ls) : ~IsBlank(ls[k])}
    IN  IF nonblank = {} THEN 0
        ELSE CHOOSE m \in 0..Len(call.body) :
                 /\ \A k \in nonblank : LeadingWs(ls[k]) >= m
                 /\ \E k \in nonblank : LeadingWs(ls[k]) = m

\* What line l of the body is to become.
Reindented(l, m) ==
    IF IsBlank(l) THEN <<>>
    ELSE call.base_indent \o <<SP, SP, SP, SP>> \o SubSeq(l, m + 1, Len(l))

\* C15: reindent_body returns the lines of the body, in order and joined by
\* newlines, a blank line as the empty string and any other line as
\* base_indent, four spaces and the line without its first m bytes, m being
\* the least leading-whitespace width of the non-blank lines.
C15_ReindentLines ==
    call.op = "reindent_body" =>
        LET ls == lines(call.body)
            m == LeastIndent(ls)
        IN  /\ res.ok
            /\ res.text = JoinNL([k \in 1..Len(ls) |-> Reindented(ls[k], m)])
            /\ ls # <<>> => Len(SplitNL(res.text, 1, <<>>)) = Len(ls)

\* The same, for the bodies whose whitespace is all single-byte.
C15_ReindentLinesAscii ==
    (call.op = "reindent_body" /\ \A i \in 1..Len(call.body) : call.body[i] # "C2") =>
        C15_ReindentLines

\* The extra indentations added to a body: up to MaxExtra spaces or tabs.
MaxExtra == 2

ExtraIndents == UNION {[1..k -> {SP, "\t"}] : k \in 1..MaxExtra}

\* The body with extra put in front of every line that is not blank.
indent_by(body, extra) ==
    LET pieces == SplitNL(body, 1, <<>>)
    IN  JoinNL([k \in 1..Len(pieces) |->
                   IF IsBlank(pieces[k]) THEN pieces[k] ELSE extra \o pieces[k]])

\* The outcome of reindent_body: its text, or the panic of the slice.
Reindent(body, base_indent) ==
    IF reindent_panics(body) THEN Err(Panicked, "")
    ELSE Ok(reindent_body(body, base_indent))

\* C24: reindent_body normalizes the caller's indentation: adding the same
\* extra leading indentation to every non-blank line of the body does not
\* change the result, which depends only on the relative indentation of the
\* body and on base_indent.
C24_IndentationNormalized ==
    call.op = "reindent_body" =>
        \A extra \in ExtraIndents :
            Reindent(indent_by(call.body, extra), call.base_indent) = res

\* A body with two lines of different indentation and a blank line between
\* them is re-indented.
C24_Witness ==
    /\ call.op = "reindent_body"
    /\ res.ok
    /\ LET ls == lines(call.body)
       IN  /\ Len(ls) = 3
           /\ ~IsBlank(ls[1]) /\ IsBlank(ls[2]) /\ ~IsBlank(ls[3])
           /\ LeadingWs(ls[1]) # LeadingWs(ls[3])
    /\ indent_by(call.body, <<SP, SP>>) # call.body
    /\ Len(indent_by(call.body, <<SP, SP>>)) = Len(call.body) + 4

(***************************************************************************)
(* Properties of the edit command (specification SpecEdit)                 *)
(***************************************************************************)
\* C2: handle_edit writes the file at most once, only at the output step after
\* the editor returned Ok, and with exactly the validated text; when the run
\* fails or is a dry run the file is never written and keeps the text read.
C2_WriteOnlyValidatedText ==
    /\ [][(file' # file \/ writes' # writes) =>
            /\ pc = "output"
            /\ ~args.dry_run
            /\ writes = 0
            /\ writes' = 1
            /\ res.ok
            /\ res = run_editor(source, args)
            /\ ~parse(res.text).err
            /\ file' = [exists |-> TRUE, text |-> res.text]]_vars
    /\ [](writes <= 1)
    /\ []((pc = "failed" \/ args.dry_run) => writes = 0)
    /\ []((writes = 0 /\ pc # "start" /\ file.exists) => file.text = source)

C2_Witness ==
    /\ pc = "done"
    /\ writes = 1
    /\ file.text = res.text
    /\ file.text # source

\* The edits the command line asks for, in input order.
Requested ==
    IF mode_of(args) = "batch"
    THEN [n \in 1..Len(args.batch.edits) |->
             [symbol |-> args.batch.edits[n].symbol,
              action |-> reported_action(args.batch.edits[n].action)]]
    ELSE <<[symbol |-> args.symbol, action |-> reported_action(mode_of(args))]>>

IsJson(entry) == entry.kind \in {"object", "array"}

\* Entry is the report of the requested edits: one record each, in input
\* order, with the line range of the symbol and its attributes in the source
\* that was read; one record is an object, any other number an array.
Reports(entry) ==
    /\ Len(entry.records) = Len(Requested)
    /\ entry.kind = IF Len(Requested) = 1 THEN "object" ELSE "array"
    /\ \A n \in 1..Len(Requested) :
          /\ entry.records[n].symbol = Requested[n].symbol
          /\ entry.records[n].action = Requested[n].action
          /\ Named(Requested[n].symbol) # {}
          /\ entry.records[n].line_start
                 = LineOf(source, FirstNamed(Requested[n].symbol).start)
          /\ entry.records[n].line_end = LineOf(source, FirstNamed(Requested[n].symbol).end)

\* C22: with JSON reporting the edit command emits one record per requested
\* edit, in input order, whose line_start and line_end are the line range of
\* the symbol, attributes included, in the source as it was before the edit;
\* the records are printed only after the edit succeeded and the result was
\* written or printed, as a single object when there is exactly one and as an
\* array otherwise.
C22_JsonReport ==
    /\ [][out' # out =>
            \/ pc = "output" /\ args.dry_run /\ ~IsJson(out'[Len(out')])
            \/ /\ pc = "report"
               /\ args.json
               /\ res.ok
               /\ res = run_editor(source, args)
               /\ args.dry_run \/ (writes = 1 /\ file.text = res.text)
               /\ out' = Append(out, out'[Len(out')])
               /\ Reports(out'[Len(out')])]_vars
    /\ [](\A n \in 1..Len(out) : IsJson(out[n]) => (pc = "done" /\ n = Len(out)))
    /\ []((pc = "done" /\ args.json) => (out # <<>> /\ Reports(out[Len(out)])))

\* Two edits are reported after the write, and the second symbol is not on the
\* reported lines in the edited text.
C22_Witness ==
    /\ pc = "done"
    /\ args.json
    /\ writes = 1
    /\ Len(out[Len(out)].records) = 2
    /\ out[Len(out)].kind = "array"
    /\ symbol_line_range(file.text, out[Len(out)].records[2].symbol).ok
    /\ symbol_line_range(file.text, out[Len(out)].records[2].symbol).line_start
           # out[Len(out)].records[2].line_start

\* One edit is reported as an object.
C22_WitnessObject ==
    /\ pc = "done"
    /\ args.json
    /\ out[Len(out)].kind = "object"
    /\ Len(out[Len(out)].records) = 1

(***************************************************************************)
(* Properties of the directory view (specification SpecDir)                *)
(***************************************************************************)
\* The files the loop has taken so far: those with results and those with a
\* warning.
Processed ==
    {res.results[k].path : k \in 1..Len(res.results)} \cup {out[k].path : k \in 1..Len(out)}

\* The requested names that an item of one of the first n files carries.
Found(n) ==
    {args.symbols[k] : k \in {k \in 1..Len(args.symbols) :
        \E i \in 1..n :
            LET r == process_walked(file.files[i], args)
            IN  r.ok /\ \E j \in 1..Len(r.items) : r.items[j].name = Some(<<args.symbols[k]>>)}}

AllFound(n) ==
    args.symbols # <<>> /\ \A k \in 1..Len(args.symbols) : args.symbols[k] \in Found(n)

\* The file after which the loop is to end.
StopAt ==
    LET complete == {n \in 1..Len(file.files) : AllFound(n)}
    IN  IF complete = {} THEN Len(file.files) ELSE Min(complete)

\* C30: in directory expand mode the files are processed one by one in walk
\* order; a file that fails to process is skipped with a warning and does not
\* stop the others; processing stops right after the first file at which every
\* requested name has been found in some processed file (a name is found when
\* a processed file yields an item of that name), so that later files are
\* never processed, and it goes on to the last file while any requested name
\* is still unfound.
C30_DirectoryWalk ==
    /\ [][pc = "loop" =>
            /\ call'.next = call.next + 1
            /\ Processed' = Processed \cup {call.next}
            /\ file.files[call.next].readable
                   => (out' = out /\ Len(res'.results) = Len(res.results) + 1)
            /\ ~file.files[call.next].readable
                   => (out' = Append(out, Warning(call.next)) /\ res' = res)
            /\ pc' = (IF call.next < StopAt THEN "loop" ELSE "format")]_vars
    /\ [](pc # "walk" =>
            /\ Processed = 1..(call.next - 1)
            /\ \A i \in Processed :
                  file.files[i].readable <=> \E k \in 1..Len(res.results) : res.results[k].path = i
            /\ \A k \in 1..(Len(res.results) - 1) :
                  res.results[k].path < res.results[k + 1].path)
    /\ [](pc = "loop" => (call.next <= Len(file.files) /\ ~AllFound(call.next - 1)))
    /\ [](pc \in {"format", "done"} => call.next - 1 = StopAt)

\* Two names are found in two files, after which the loop ends and the third
\* file is never processed.
C30_Witness ==
    /\ pc = "done"
    /\ Len(args.symbols) = 2
    /\ Len(file.files) = 3
    /\ Processed = {1, 2}
    /\ Cardinality(Found(1)) = 1
    /\ AllFound(2)
    /\ file.files[3].readable

\* A file that cannot be read is skipped with a warning and the files after it
\* are processed.
C30_WitnessWarning ==
    /\ pc = "done"
    /\ args.symbols # <<>>
    /\ out = <<Warning(1)>>
    /\ Len(res.results) = 2
    /\ AllFound(3)
    /\ ~AllFound(2)

\* A requested name is in no file: every file is processed.
C30_WitnessUnfound ==
    /\ pc = "done"
    /\ Len(file.files) = 3
    /\ Found(3) # {}
    /\ ~AllFound(3)
    /\ Processed = {1, 2, 3}

====
